---------------------------- MODULE Spec2Model ----------------------------
(***************************************************************************)
(* Client-side resilience layer of the beef-marbling PWA.                  *)
(*                                                                         *)
(*  - ResilientAPIClient: handlePredictionClick / executePrediction /      *)
(*    callPredictionAPI / shouldRetry (prediction script).                 *)
(*  - Cache engine: the service worker's fetch listener, its request       *)
(*    predicates and its three strategies.                                 *)
(*  - Lifecycle: the service worker's install, activate and message        *)
(*    listeners.                                                           *)
(*                                                                         *)
(* Time is counted in units of 1000 ms: the 30000 ms timeout is 30 units,  *)
(* the 1000 ms retry delay is 1 unit.                                      *)
(***************************************************************************)
EXTENDS Integers, Sequences, FiniteSets, TLC

VARIABLES
    \* ---- prediction client (page) ----
    currentImageFile,      \* window.currentImageFile
    predictionInProgress,  \* let predictionInProgress
    call,                  \* the submission being (or last) executed
    inFlight,              \* number of executePrediction activations not yet finished
    pc,                    \* where the active callPredictionAPI activation is suspended
    retryCount,            \* parameter retryCount of the active activation
    elapsed,               \* time passed since the pending timer was set
    willSettle,            \* whether the pending fetch will ever settle by itself
    response,              \* the Response the fetch resolved with
    timerArmed,            \* the abort timer of the current attempt is set
    staleTimers,           \* abort timers still set for attempts that already ended
    netCalls,              \* fetches issued by the submission in `call`
    notification,          \* kind of the last showNotification
    resultState,           \* the result panel shown by showResultState
    historyHead,           \* image of predictionHistory[0]
    busyClicks,            \* clicks answered "in progress" during the submission in `call`
    \* ---- service worker ----
    cacheStore,            \* caches: cache name -> set of entries (url, status, body)
    tasks,                 \* the fetch events received, each with its handler's progress
    \* ---- service worker lifecycle ----
    lifecycle,             \* ServiceWorker.state of this worker
    installPc,             \* where the install listener's async function is suspended
    installLog,            \* what the install listener logged at its end
    skipWaitingFlag,       \* self.skipWaiting() was called
    oldClients,            \* a previous worker still controls open pages
    activatePc,            \* where the activate listener's async function is suspended
    activateLog,           \* what the activate listener logged at its end
    pendingDeletes,        \* caches.delete calls of the activate listener not yet settled
    claimed,               \* self.clients.claim() has resolved
    \* ---- the worker's surroundings ----
    storageUnavailable,    \* the cache storage is failing: a read or write may throw
    oldWrite,              \* a handler of the previous worker has a cache write to make
    serverStatuses,        \* the statuses the server answers /api/predict with
    \* ---- background sync ----
    syncTasks,             \* the sync events received, each with its handler's progress
    controlled,            \* the pages self.clients.matchAll() returns
    inbox,                 \* per page, the messages the worker posted to it
    clock,                 \* the time new Date() gives
    \* ---- system monitoring (page) ----
    probes,                \* the activations of checkSystemHealth, in the order issued
    systemStatus,          \* the badge shown in #systemStatus
    modelInfo,             \* the content of #modelInfo
    statusProbe,           \* the activation that wrote systemStatus last
    isOnline,              \* let isOnline
    \* ---- camera (page) ----
    stream,                \* let stream: the MediaStream held, or None
    isStreamActive,        \* let isStreamActive
    cameraCalls,           \* the activations of startCamera and switchCamera
    running,               \* the MediaStreams acquired whose tracks were not stopped
    acquired,              \* number of MediaStreams getUserMedia has handed out
    documentHidden         \* document.hidden

clientVars == <<currentImageFile, predictionInProgress, call, inFlight, pc, retryCount,
                elapsed, willSettle, response, timerArmed, staleTimers, netCalls,
                notification, resultState, historyHead, busyClicks>>

workerVars == <<cacheStore, tasks>>

lifecycleVars == <<lifecycle, installPc, installLog, skipWaitingFlag, oldClients,
                   activatePc, activateLog, pendingDeletes, claimed>>

syncVars == <<syncTasks, controlled, inbox, clock>>

healthVars == <<probes, systemStatus, modelInfo, statusProbe, isOnline>>

cameraVars == <<stream, isStreamActive, cameraCalls, running, acquired, documentHidden>>

pageVars == <<healthVars, cameraVars>>

envVars == <<storageUnavailable, oldWrite, serverStatuses, syncVars, pageVars>>

vars == <<clientVars, workerVars, lifecycleVars, envVars>>

-----------------------------------------------------------------------------
(* Bounds of the model *)

MaxBusyClicks == 1
MaxStaleTimers == 1
MaxFetchEvents == 2
MaxSyncSignals == 2
MaxClock == 2

-----------------------------------------------------------------------------
(* PREDICTION_CONFIG *)

TIMEOUT == 30
MAX_RETRIES == 3
RETRY_DELAY == 1

-----------------------------------------------------------------------------
(* Values *)

None == "none"
Images == {"sample.jpg", "other.png"}

\* HTTP statuses the prediction endpoint is exercised with
Statuses == {200, 400, 404, 413, 503}

\* how the body of a Response behaves when it is read as JSON
Bodies == {"json", "invalid", "never"}

NoResponse == [status |-> 0, body |-> None]
NoError == [kind |-> None, status |-> 0]

\* response.ok
Ok(status) == status >= 200 /\ status <= 299

\* The errors callPredictionAPI's catch block can see.
\*   APIError   : thrown at the !response.ok check, carries the status
\*   AbortError : the fetch was aborted by the timer
\*   TypeError  : the fetch itself failed (transport)
\*   SyntaxError: response.json() of an ok response failed
APIError(status) == [kind |-> "APIError", status |-> status]
AbortError == [kind |-> "AbortError", status |-> 0]
TransportError == [kind |-> "TypeError", status |-> 0]
ParseError == [kind |-> "SyntaxError", status |-> 0]

\* the TypeError displayPredictionResult throws on a result without the
\* prediction text
RenderError == [kind |-> "TypeError", status |-> 0]

\* a submission: its image, the attempts of callPredictionAPI as the
\* console shows them, and what executePrediction was handed and showed
\*   delivered   what callPredictionAPI handed to executePrediction, in
\*               order: "result" for a return, "error" for a throw
\*   messages    the error messages shown to the user for this submission
NoCall == [image |-> None, attempts |-> <<>>, outcome |-> "none",
           error |-> NoError, result |-> None,
           delivered |-> <<>>, messages |-> <<>>]

\* the message displayPredictionError chooses; mentionsFetch says whether
\* the browser's text of a failed fetch contains "fetch". A variant
\* without the branches shows the text it starts with.
Message(kind, status) == [kind |-> kind, status |-> status]

displayPredictionError_Generic(error, mentionsFetch) == Message("generic", 0)

displayPredictionError(error, mentionsFetch) ==
    IF error.kind = "APIError"
    THEN CASE error.status = 400 -> Message("bad_image", 0)
           [] error.status = 413 -> Message("too_large", 0)
           [] error.status = 500 -> Message("server_error", 0)
           [] error.status = 503 -> Message("unavailable", 0)
           [] OTHER -> Message("http_status", error.status)
    ELSE IF error.kind = "AbortError" THEN Message("timeout", 0)
    ELSE IF error.kind = "TypeError" /\ mentionsFetch THEN Message("network", 0)
    ELSE Message("generic", 0)

\* function shouldRetry(error), with an off-by-class variant that retries
\* every APIError status from 400 up
shouldRetry_From400(error) ==
    IF error.kind = "AbortError" THEN FALSE
    ELSE IF error.kind = "APIError" THEN error.status >= 400
    ELSE TRUE

\* a variant with the status comparison inverted
shouldRetry_Inverted(error) ==
    IF error.kind = "AbortError" THEN FALSE
    ELSE IF error.kind = "APIError" THEN error.status < 500
    ELSE TRUE

\* a variant without the AbortError line
shouldRetry_NoAbortCheck(error) ==
    IF error.kind = "APIError" THEN error.status >= 500
    ELSE TRUE

shouldRetry(error) ==
    IF error.kind = "AbortError" THEN FALSE
    ELSE IF error.kind = "APIError" THEN error.status >= 500
    ELSE TRUE

\* retryCount < PREDICTION_CONFIG.maxRetries && shouldRetry(error)
RetryAllowed_OffByOne(n, error) == n <= MAX_RETRIES /\ shouldRetry(error)

RetryAllowed(n, error) == n < MAX_RETRIES /\ shouldRetry(error)

\* the phase of a submission, read off its record
Phase(c) ==
    IF c.outcome = "none" THEN "Idle"
    ELSE IF c.outcome = "result" THEN "Succeeded"
    ELSE IF c.outcome = "error" THEN "Failed"
    ELSE IF Len(c.attempts) = 1 /\ ~c.attempts[1].settled THEN "Submitting"
    ELSE "Retrying"

\* the record of the attempt in progress, completed with what it ended in
CloseAttempt(c, status, error) ==
    [c EXCEPT !.attempts[Len(c.attempts)] =
        [attemptIndex |-> @.attemptIndex, status |-> status, error |-> error,
         settled |-> TRUE]]



\* the console line callPredictionAPI(imageFile, n) starts with, and a
\* variant that does not number it
NewAttempt_Unnumbered(n) ==
    [attemptIndex |-> 0, status |-> 0, error |-> NoError, settled |-> FALSE]

NewAttempt(n) ==
    [attemptIndex |-> n, status |-> 0, error |-> NoError, settled |-> FALSE]

-----------------------------------------------------------------------------
(* Initial state: scripts loaded, no image chosen, nothing submitted *)

ClientInit ==
    /\ currentImageFile = None
    /\ predictionInProgress = FALSE
    /\ call = NoCall
    /\ inFlight = 0
    /\ pc = "idle"
    /\ retryCount = 0
    /\ elapsed = 0
    /\ willSettle = FALSE
    /\ response = NoResponse
    /\ timerArmed = FALSE
    /\ staleTimers = 0
    /\ netCalls = 0
    /\ notification = None
    /\ resultState = "waiting"
    /\ historyHead = None
    /\ busyClicks = 0

-----------------------------------------------------------------------------
(* Image selection *)

\* reader.onload of displayImagePreview / displayCapturedImage
displayImagePreview(file) ==
    /\ currentImageFile' = file
    /\ UNCHANGED <<predictionInProgress, call, inFlight, pc, retryCount, elapsed,
                   willSettle, response, timerArmed, staleTimers, netCalls,
                   notification, resultState, historyHead, busyClicks>>
    /\ UNCHANGED <<workerVars, lifecycleVars, envVars>>

handleRetake ==
    /\ currentImageFile' = None
    /\ resultState' = "waiting"
    /\ UNCHANGED <<predictionInProgress, call, inFlight, pc, retryCount, elapsed,
                   willSettle, response, timerArmed, staleTimers, netCalls,
                   notification, historyHead, busyClicks>>
    /\ UNCHANGED <<workerVars, lifecycleVars, envVars>>

-----------------------------------------------------------------------------
(* callPredictionAPI *)

\* callPredictionAPI(imageFile, n) from its entry to `await fetch(...)`:
\* a fresh AbortController and abort timer, then the fetch is issued.
\* c is the submission record the attempt is appended to.
callPredictionAPI(c, n) ==
    /\ retryCount' = n
    /\ call' = [c EXCEPT !.attempts = Append(@, NewAttempt(n))]
    /\ pc' = "fetch"
    /\ elapsed' = 0
    /\ timerArmed' = TRUE
    /\ response' = NoResponse
    /\ netCalls' = IF n = 0 THEN 1 ELSE netCalls + 1
    /\ willSettle' \in BOOLEAN

\* executePrediction's catch and finally blocks, entered with the error
\* callPredictionAPI threw
executePredictionFails(c, error) ==
    /\ \E mentionsFetch \in (IF error.kind = "TypeError" THEN BOOLEAN ELSE {FALSE}) :
          call' = [c EXCEPT !.outcome = "error", !.error = error,
                            !.delivered = Append(@, "error"),
                            !.messages =
                               Append(@, displayPredictionError(error, mentionsFetch))]
    /\ notification' = "error"
    /\ resultState' = "error"
    /\ predictionInProgress' = FALSE
    /\ inFlight' = inFlight - 1
    /\ pc' = "idle"
    /\ elapsed' = 0
    /\ retryCount' = 0
    /\ UNCHANGED <<historyHead>>

\* callPredictionAPI's catch block, entered with `error`; c is the
\* submission record with the failed attempt closed. A variant shows the
\* error of an attempt that is retried.
Catch_ShowsRetriedError(c, error) ==
    IF RetryAllowed(retryCount, error)
    THEN /\ call' = [c EXCEPT !.messages =
                        Append(@, displayPredictionError(error, FALSE))]
         /\ pc' = "delay"
         /\ elapsed' = 0
         /\ UNCHANGED <<predictionInProgress, inFlight, retryCount, notification,
                        resultState, historyHead>>
    ELSE executePredictionFails(c, error)

Catch(c, error) ==
    IF RetryAllowed(retryCount, error)
    THEN /\ call' = c
         /\ pc' = "delay"
         /\ elapsed' = 0
         /\ UNCHANGED <<predictionInProgress, inFlight, retryCount, notification,
                        resultState, historyHead>>
    ELSE executePredictionFails(c, error)

\* the fetch resolves with a Response (headers received); clearTimeout
FetchResolves ==
    /\ pc = "fetch"
    /\ willSettle
    /\ \E status \in serverStatuses, body \in Bodies :
          response' = [status |-> status, body |-> body]
    /\ timerArmed' = FALSE
    /\ willSettle' = FALSE
    /\ pc' = "body"
    /\ elapsed' = 0
    /\ UNCHANGED <<currentImageFile, predictionInProgress, call, inFlight, retryCount,
                   staleTimers, netCalls, notification, resultState, historyHead,
                   busyClicks>>
    /\ UNCHANGED <<workerVars, lifecycleVars, envVars>>

\* the fetch rejects by itself (transport failure); the abort timer of
\* this attempt is not cleared on this path
FetchRejects ==
    /\ pc = "fetch"
    /\ willSettle
    /\ staleTimers < MaxStaleTimers
    /\ staleTimers' = staleTimers + 1
    /\ timerArmed' = FALSE
    /\ willSettle' = FALSE
    /\ Catch(CloseAttempt(call, 0, TransportError), TransportError)
    /\ UNCHANGED <<currentImageFile, response, netCalls, busyClicks>>
    /\ UNCHANGED <<workerVars, lifecycleVars, envVars>>

\* the abort timer of the pending attempt fires: controller.abort() makes
\* the fetch reject with AbortError
TimeoutFires ==
    /\ pc = "fetch"
    /\ timerArmed
    /\ elapsed = TIMEOUT
    /\ timerArmed' = FALSE
    /\ willSettle' = FALSE
    /\ Catch(CloseAttempt(call, 0, AbortError), AbortError)
    /\ UNCHANGED <<currentImageFile, response, staleTimers, netCalls, busyClicks>>
    /\ UNCHANGED <<workerVars, lifecycleVars, envVars>>

\* a variant in which the attempts share one controller: a timer left set
\* by an attempt that ended aborts the fetch that is pending now
StaleTimeoutFires_SharedController ==
    /\ staleTimers > 0
    /\ staleTimers' = staleTimers - 1
    /\ IF pc = "fetch"
       THEN /\ timerArmed' = FALSE
            /\ willSettle' = FALSE
            /\ Catch(CloseAttempt(call, 0, AbortError), AbortError)
            /\ UNCHANGED <<currentImageFile, response, netCalls, busyClicks>>
       ELSE UNCHANGED <<currentImageFile, predictionInProgress, call, inFlight, pc,
                        retryCount, elapsed, willSettle, response, timerArmed, netCalls,
                        notification, resultState, historyHead, busyClicks>>
    /\ UNCHANGED <<workerVars, lifecycleVars, envVars>>

\* an abort timer left set by an attempt that already ended fires: it
\* aborts that attempt's own controller, whose fetch has settled
StaleTimeoutFires ==
    /\ staleTimers > 0
    /\ staleTimers' = staleTimers - 1
    /\ UNCHANGED <<currentImageFile, predictionInProgress, call, inFlight, pc,
                   retryCount, elapsed, willSettle, response, timerArmed, netCalls,
                   notification, resultState, historyHead, busyClicks>>
    /\ UNCHANGED <<workerVars, lifecycleVars, envVars>>

\* a variant of the next definition whose flag is reset at the end of the
\* try block and not in a finally block
executePredictionSucceeds_NoFinally(c) ==
    /\ \E rendered \in BOOLEAN :
          IF rendered
          THEN /\ call' = [c EXCEPT !.outcome = "result", !.result = "parsed",
                                    !.delivered = Append(@, "result")]
               /\ notification' = "success"
               /\ resultState' = "display"
               /\ historyHead' = c.image
               /\ predictionInProgress' = FALSE
          ELSE /\ call' = [c EXCEPT !.outcome = "result", !.result = "parsed",
                                    !.delivered = Append(@, "result"),
                                    !.messages =
                                       Append(@, displayPredictionError(RenderError, FALSE))]
               /\ notification' = "error"
               /\ resultState' = "error"
               /\ UNCHANGED <<historyHead, predictionInProgress>>
    /\ inFlight' = inFlight - 1
    /\ pc' = "idle"
    /\ elapsed' = 0
    /\ retryCount' = 0

\* executePrediction after callPredictionAPI returned `result`:
\* displayPredictionResult, addToHistory, finally. displayPredictionResult
\* renders the result, or throws on a result it cannot render (a result
\* without the prediction text) before it has switched the result area:
\* then the catch block shows the error, nothing is added to the history,
\* and the finally block runs as well.
executePredictionSucceeds(c) ==
    /\ \E rendered \in BOOLEAN :
          IF rendered
          THEN /\ call' = [c EXCEPT !.outcome = "result", !.result = "parsed",
                                    !.delivered = Append(@, "result")]
               /\ notification' = "success"
               /\ resultState' = "display"
               /\ historyHead' = c.image
          ELSE /\ call' = [c EXCEPT !.outcome = "result", !.result = "parsed",
                                    !.delivered = Append(@, "result"),
                                    !.messages =
                                       Append(@, displayPredictionError(RenderError, FALSE))]
               /\ notification' = "error"
               /\ resultState' = "error"
               /\ UNCHANGED historyHead
    /\ predictionInProgress' = FALSE
    /\ inFlight' = inFlight - 1
    /\ pc' = "idle"
    /\ elapsed' = 0
    /\ retryCount' = 0

\* response.json() settles: the error body of a !ok response (a parse
\* failure there is swallowed), or the result of an ok response
ResponseBodySettles ==
    /\ pc = "body"
    /\ response.body # "never"
    /\ IF ~Ok(response.status)
       THEN Catch(CloseAttempt(call, response.status, APIError(response.status)),
                  APIError(response.status))
       ELSE IF response.body = "json"
       THEN executePredictionSucceeds(CloseAttempt(call, response.status, NoError))
       ELSE Catch(CloseAttempt(call, response.status, ParseError), ParseError)
    /\ response' = NoResponse
    /\ UNCHANGED <<currentImageFile, willSettle, timerArmed, staleTimers, netCalls,
                   busyClicks>>
    /\ UNCHANGED <<workerVars, lifecycleVars, envVars>>

\* the retry delay has elapsed: return callPredictionAPI(imageFile, retryCount + 1);
\* and a variant that makes the recursive call without the delay
RetryDelayElapses_NoWait ==
    /\ pc = "delay"
    /\ callPredictionAPI(call, retryCount + 1)
    /\ UNCHANGED <<currentImageFile, predictionInProgress, inFlight, staleTimers,
                   notification, resultState, historyHead, busyClicks>>
    /\ UNCHANGED <<workerVars, lifecycleVars, envVars>>

RetryDelayElapses ==
    /\ pc = "delay"
    /\ elapsed = RETRY_DELAY
    /\ callPredictionAPI(call, retryCount + 1)
    /\ UNCHANGED <<currentImageFile, predictionInProgress, inFlight, staleTimers,
                   notification, resultState, historyHead, busyClicks>>
    /\ UNCHANGED <<workerVars, lifecycleVars, envVars>>

\* time passes, with nothing else happening, until the pending timer (the
\* abort timer of the attempt, or the retry delay) is due
TimePasses ==
    /\ \/ pc = "fetch" /\ elapsed < TIMEOUT /\ elapsed' = TIMEOUT
       \/ pc = "delay" /\ elapsed < RETRY_DELAY /\ elapsed' = RETRY_DELAY
    /\ UNCHANGED <<currentImageFile, predictionInProgress, call, inFlight, pc,
                   retryCount, willSettle, response, timerArmed, staleTimers, netCalls,
                   notification, resultState, historyHead, busyClicks>>
    /\ UNCHANGED <<workerVars, lifecycleVars, envVars>>

-----------------------------------------------------------------------------
(* Submission *)

\* executePrediction(imageFile) from its entry to the first suspension
executePrediction(imageFile) ==
    /\ predictionInProgress' = TRUE
    /\ inFlight' = inFlight + 1
    /\ resultState' = "processing"
    /\ busyClicks' = 0
    /\ callPredictionAPI([NoCall EXCEPT !.image = imageFile, !.outcome = "pending"], 0)
    /\ UNCHANGED <<currentImageFile, staleTimers, notification, historyHead,
                   workerVars, lifecycleVars, envVars>>

\* handlePredictionClick without the in-progress check
handlePredictionClick_NoGuard ==
    \/ /\ currentImageFile = None
       /\ notification' = "image_error"
       /\ UNCHANGED <<currentImageFile, predictionInProgress, call, inFlight, pc,
                      retryCount, elapsed, willSettle, response, timerArmed,
                      staleTimers, netCalls, resultState, historyHead, busyClicks,
                      workerVars, lifecycleVars, envVars>>
    \/ /\ currentImageFile # None
       /\ executePrediction(currentImageFile)

handlePredictionClick ==
    \/ /\ predictionInProgress
       /\ busyClicks < MaxBusyClicks
       /\ busyClicks' = busyClicks + 1
       /\ UNCHANGED <<currentImageFile, predictionInProgress, call, inFlight, pc,
                      retryCount, elapsed, willSettle, response, timerArmed,
                      staleTimers, netCalls, notification, resultState, historyHead,
                      workerVars, lifecycleVars, envVars>>
    \/ /\ ~predictionInProgress
       /\ currentImageFile = None
       /\ notification' = "image_error"
       /\ UNCHANGED <<currentImageFile, predictionInProgress, call, inFlight, pc,
                      retryCount, elapsed, willSettle, response, timerArmed,
                      staleTimers, netCalls, resultState, historyHead, busyClicks,
                      workerVars, lifecycleVars, envVars>>
    \/ /\ ~predictionInProgress
       /\ currentImageFile # None
       /\ executePrediction(currentImageFile)

-----------------------------------------------------------------------------
(* The prediction client *)

\* the steps taken by the client's own code, its timers and a network
\* that answers
ClientProgress ==
    \/ FetchResolves
    \/ FetchRejects
    \/ TimeoutFires
    \/ ResponseBodySettles
    \/ RetryDelayElapses
    \/ TimePasses

ClientNext ==
    \/ \E file \in Images : displayImagePreview(file)
    \/ handleRetake
    \/ handlePredictionClick
    \/ FetchResolves
    \/ FetchRejects
    \/ TimeoutFires
    \/ StaleTimeoutFires
    \/ ResponseBodySettles
    \/ RetryDelayElapses
    \/ TimePasses

-----------------------------------------------------------------------------
(* System monitoring of the page: checkSystemHealth and the online state *)

\* activations of checkSystemHealth the model follows
MaxProbes == 4

\* an activation of checkSystemHealth suspended at `await fetch('/api/health')`
HealthProbe(source) == [source |-> source, pc |-> "fetch"]

\* the answer of the activation is on the page
SettledProbe(source) == [source |-> source, pc |-> "done"]

\* the page some time after start-up: both start-up probes answered by a
\* healthy server, the page on line
HealthSettled ==
    /\ probes = <<SettledProbe("setInitialState"),
                  SettledProbe("startSystemMonitoring")>>
    /\ systemStatus = "ok"
    /\ modelInfo = "info"
    /\ statusProbe = 2
    /\ isOnline = TRUE

\* the page at the end of the DOMContentLoaded listener: setInitialState
\* and then startSystemMonitoring have each called checkSystemHealth, the
\* interval timer is set, nothing has answered
HealthInit ==
    /\ probes = <<HealthProbe("setInitialState"),
                  HealthProbe("startSystemMonitoring")>>
    /\ systemStatus = None
    /\ modelInfo = None
    /\ statusProbe = 0
    /\ isOnline = TRUE

\* checkSystemHealth from its entry to `await fetch('/api/health', ...)`
checkSystemHealth(source) ==
    /\ Len(probes) < MaxProbes
    /\ probes' = Append(probes, HealthProbe(source))

\* the timer of setInterval(checkSystemHealth, 30000) fires
IntervalFires ==
    /\ checkSystemHealth("interval")
    /\ UNCHANGED <<systemStatus, modelInfo, statusProbe, isOnline>>
    /\ UNCHANGED <<clientVars, workerVars, lifecycleVars, storageUnavailable,
                   oldWrite, serverStatuses, syncVars, cameraVars>>

\* window 'online': the browser went from off line to on line
handleOnline ==
    /\ ~isOnline
    /\ isOnline' = TRUE
    /\ checkSystemHealth("online")
    /\ notification' = "success"
    /\ UNCHANGED <<systemStatus, modelInfo, statusProbe>>
    /\ UNCHANGED <<currentImageFile, predictionInProgress, call, inFlight, pc,
                   retryCount, elapsed, willSettle, response, timerArmed,
                   staleTimers, netCalls, resultState, historyHead, busyClicks>>
    /\ UNCHANGED <<workerVars, lifecycleVars, storageUnavailable,
                   oldWrite, serverStatuses, syncVars, cameraVars>>

\* window 'offline'
handleOffline ==
    /\ isOnline
    /\ isOnline' = FALSE
    /\ notification' = "warning"
    /\ UNCHANGED <<probes, systemStatus, modelInfo, statusProbe>>
    /\ UNCHANGED <<currentImageFile, predictionInProgress, call, inFlight, pc,
                   retryCount, elapsed, willSettle, response, timerArmed,
                   staleTimers, netCalls, resultState, historyHead, busyClicks>>
    /\ UNCHANGED <<workerVars, lifecycleVars, storageUnavailable,
                   oldWrite, serverStatuses, syncVars, cameraVars>>

HealthFetchOutcomes == {"ok", "not_ok", "rejected"}

\* the fetch of activation i settles: an ok response goes on to
\* response.json(); any other response shows the error status, a
\* rejection the connection error of the catch block
HealthFetchSettles(i, outcome) ==
    /\ probes[i].pc = "fetch"
    /\ IF outcome = "ok"
       THEN /\ probes' = [probes EXCEPT ![i].pc = "body"]
            /\ UNCHANGED <<systemStatus, modelInfo, statusProbe>>
       ELSE /\ probes' = [probes EXCEPT ![i].pc = "done"]
            /\ systemStatus' = IF outcome = "not_ok" THEN "error"
                               ELSE "connection_error"
            /\ modelInfo' = "unavailable"
            /\ statusProbe' = i
    /\ UNCHANGED isOnline
    /\ UNCHANGED <<clientVars, workerVars, lifecycleVars, storageUnavailable,
                   oldWrite, serverStatuses, syncVars, cameraVars>>

HealthBodies == {"with_info", "without_info", "invalid"}

\* response.json() of activation i settles: the status becomes normal and
\* the model information is shown (or its placeholder, when the body has
\* none); a body that is not JSON ends in the catch block
HealthBodySettles(i, body) ==
    /\ probes[i].pc = "body"
    /\ probes' = [probes EXCEPT ![i].pc = "done"]
    /\ systemStatus' = IF body = "invalid" THEN "connection_error" ELSE "ok"
    /\ modelInfo' = IF body = "with_info" THEN "info" ELSE "unavailable"
    /\ statusProbe' = i
    /\ UNCHANGED isOnline
    /\ UNCHANGED <<clientVars, workerVars, lifecycleVars, storageUnavailable,
                   oldWrite, serverStatuses, syncVars, cameraVars>>

HealthNext ==
    \/ IntervalFires
    \/ handleOnline
    \/ handleOffline
    \/ \E i \in 1..Len(probes), outcome \in HealthFetchOutcomes :
          HealthFetchSettles(i, outcome)
    \/ \E i \in 1..Len(probes), body \in HealthBodies : HealthBodySettles(i, body)

-----------------------------------------------------------------------------
(* Camera of the page: startCamera, stopCamera, switchCamera, cleanupCamera *)

\* activations of startCamera and switchCamera the model follows
MaxCameraCalls == 3

\* `stream = null`
NoStream == 0

\* an activation of startCamera or switchCamera and the await it is at:
\* "enumerate" (enumerateDevices), "main" (getUserMedia with
\* CAMERA_CONSTRAINTS), "fallback" (getUserMedia with FALLBACK_CONSTRAINTS)
CameraCall(fn, at) == [fn |-> fn, pc |-> at]

\* the page some time after start-up: the camera was granted to the
\* startCamera of initializeCamera, the page is visible
CameraSettled ==
    /\ stream = 1
    /\ isStreamActive = TRUE
    /\ cameraCalls = <<CameraCall("startCamera", "done")>>
    /\ running = {1}
    /\ acquired = 1
    /\ documentHidden = FALSE

\* the page at the end of the DOMContentLoaded listener: initializeCamera
\* has called startCamera, which waits for getUserMedia
CameraInit ==
    /\ stream = NoStream
    /\ isStreamActive = FALSE
    /\ cameraCalls = <<CameraCall("startCamera", "main")>>
    /\ running = {}
    /\ acquired = 0
    /\ documentHidden = FALSE

PageSettled == HealthSettled /\ CameraSettled

\* startCamera from its entry to the first `await getUserMedia(...)`
startCamera ==
    /\ Len(cameraCalls) < MaxCameraCalls
    /\ cameraCalls' = Append(cameraCalls, CameraCall("startCamera", "main"))

\* stopCamera as a whole
stopCamera ==
    IF stream # NoStream
    THEN /\ running' = running \ {stream}
         /\ stream' = NoStream
         /\ isStreamActive' = FALSE
    ELSE UNCHANGED <<stream, isStreamActive, running>>

\* document 'visibilitychange': the page is hidden, or shown again
handleVisibilityChange ==
    /\ documentHidden' = ~documentHidden
    /\ IF documentHidden /\ ~isStreamActive /\ currentImageFile = None
       THEN startCamera
       ELSE UNCHANGED cameraCalls
    /\ UNCHANGED <<stream, isStreamActive, running, acquired>>
    /\ UNCHANGED <<clientVars, workerVars, lifecycleVars, storageUnavailable,
                   oldWrite, serverStatuses, syncVars, healthVars>>

\* switchCamera from its entry to `await enumerateDevices()`
switchCamera ==
    /\ Len(cameraCalls) < MaxCameraCalls
    /\ cameraCalls' = Append(cameraCalls, CameraCall("switchCamera", "enumerate"))
    /\ UNCHANGED <<stream, isStreamActive, running, acquired, documentHidden>>
    /\ UNCHANGED <<clientVars, workerVars, lifecycleVars, storageUnavailable,
                   oldWrite, serverStatuses, syncVars, healthVars>>

DeviceLists == {"one", "several", "rejected"}

\* enumerateDevices of switchCamera settles: with more than one video
\* input the camera is stopped and startCamera is awaited
EnumerateSettles(i, devices) ==
    /\ cameraCalls[i].pc = "enumerate"
    /\ IF devices = "several"
       THEN /\ stopCamera
            /\ cameraCalls' = [cameraCalls EXCEPT ![i].pc = "main"]
       ELSE /\ cameraCalls' = [cameraCalls EXCEPT ![i].pc = "done"]
            /\ UNCHANGED <<stream, isStreamActive, running>>
    /\ UNCHANGED <<acquired, documentHidden>>
    /\ UNCHANGED <<clientVars, workerVars, lifecycleVars, storageUnavailable,
                   oldWrite, serverStatuses, syncVars, healthVars>>

\* getUserMedia of activation i settles: a granted stream is stored in
\* `stream` and the flag is set; a refusal of the main constraints leads
\* to the request with the fallback constraints, a refusal of those to
\* handleCameraError
GetUserMediaSettles(i, granted) ==
    /\ cameraCalls[i].pc \in {"main", "fallback"}
    /\ IF granted
       THEN /\ acquired' = acquired + 1
            /\ running' = running \cup {acquired + 1}
            /\ stream' = acquired + 1
            /\ isStreamActive' = TRUE
            /\ cameraCalls' = [cameraCalls EXCEPT ![i].pc = "done"]
       ELSE /\ cameraCalls' = [cameraCalls EXCEPT ![i].pc =
                                  IF @ = "main" THEN "fallback" ELSE "done"]
            /\ UNCHANGED <<stream, isStreamActive, running, acquired>>
    /\ UNCHANGED documentHidden
    /\ UNCHANGED <<clientVars, workerVars, lifecycleVars, storageUnavailable,
                   oldWrite, serverStatuses, syncVars, healthVars>>

\* window 'beforeunload' and 'pagehide'
cleanupCamera ==
    /\ stopCamera
    /\ UNCHANGED <<cameraCalls, acquired, documentHidden>>
    /\ UNCHANGED <<clientVars, workerVars, lifecycleVars, storageUnavailable,
                   oldWrite, serverStatuses, syncVars, healthVars>>

CameraNext ==
    \/ handleVisibilityChange
    \/ switchCamera
    \/ \E i \in 1..Len(cameraCalls), devices \in DeviceLists : EnumerateSettles(i, devices)
    \/ \E i \in 1..Len(cameraCalls), granted \in BOOLEAN : GetUserMediaSettles(i, granted)
    \/ cleanupCamera
    \/ \E file \in Images : displayImagePreview(file)

-----------------------------------------------------------------------------
(* Service worker: configuration *)

\* Cache names are written as sequences of characters, as the paths and
\* host names below, so that startsWith is computed on them.

\* "beef-marbling-static-v1"
STATIC_CACHE_NAME ==
    <<"b", "e", "e", "f", "-", "m", "a", "r", "b", "l", "i", "n", "g", "-",
      "s", "t", "a", "t", "i", "c", "-", "v", "1">>

\* "beef-marbling-dynamic-v1"
DYNAMIC_CACHE_NAME ==
    <<"b", "e", "e", "f", "-", "m", "a", "r", "b", "l", "i", "n", "g", "-",
      "d", "y", "n", "a", "m", "i", "c", "-", "v", "1">>

\* "beef-marbling-", the prefix the activate listener filters cache names by
CACHE_NAME_PREFIX ==
    <<"b", "e", "e", "f", "-", "m", "a", "r", "b", "l", "i", "n", "g", "-">>

\* caches that may exist when the worker is installed: the two of the
\* previous version of this worker, and one of another script of the origin
\* "beef-marbling-static-v0"
OLD_STATIC_CACHE_NAME ==
    <<"b", "e", "e", "f", "-", "m", "a", "r", "b", "l", "i", "n", "g", "-",
      "s", "t", "a", "t", "i", "c", "-", "v", "0">>

\* "beef-marbling-dynamic-v0"
OLD_DYNAMIC_CACHE_NAME ==
    <<"b", "e", "e", "f", "-", "m", "a", "r", "b", "l", "i", "n", "g", "-",
      "d", "y", "n", "a", "m", "i", "c", "-", "v", "0">>

\* "beef-tracker-v1"
FOREIGN_CACHE_NAME ==
    <<"b", "e", "e", "f", "-", "t", "r", "a", "c", "k", "e", "r", "-", "v",
      "1">>

\* String.prototype.startsWith and String.prototype.includes, on strings
\* written as sequences of characters
StartsWith(s, prefix) ==
    /\ Len(prefix) <= Len(s)
    /\ SubSeq(s, 1, Len(prefix)) = prefix

Includes(s, part) ==
    \E i \in 1..(Len(s) - Len(part) + 1) : SubSeq(s, i, i + Len(part) - 1) = part

\* "/"
PATH_ROOT ==
    <<"/">>

\* "/static/"
PATH_STATIC_PREFIX ==
    <<"/", "s", "t", "a", "t", "i", "c", "/">>

\* "/manifest.json"
PATH_MANIFEST ==
    <<"/", "m", "a", "n", "i", "f", "e", "s", "t", ".", "j", "s", "o", "n">>

\* "/api/"
PATH_API_PREFIX ==
    <<"/", "a", "p", "i", "/">>

\* "/api/predict"
PATH_API_PREDICT ==
    <<"/", "a", "p", "i", "/", "p", "r", "e", "d", "i", "c", "t">>

\* "/api/health"
PATH_API_HEALTH ==
    <<"/", "a", "p", "i", "/", "h", "e", "a", "l", "t", "h">>

\* "cdn.jsdelivr.net"
HOST_CDN ==
    <<"c", "d", "n", ".", "j", "s", "d", "e", "l", "i", "v", "r", ".", "n",
      "e", "t">>

\* "/static/js/app.js"
PATH_APP_JS ==
    <<"/", "s", "t", "a", "t", "i", "c", "/", "j", "s", "/", "a", "p", "p",
      ".", "j", "s">>

\* "/npm/bootstrap.min.css"
PATH_CDN_CSS ==
    <<"/", "n", "p", "m", "/", "b", "o", "o", "t", "s", "t", "r", "a", "p",
      ".", "m", "i", "n", ".", "c", "s", "s">>

\* "/api/predictions"
PATH_API_PREDICTIONS ==
    <<"/", "a", "p", "i", "/", "p", "r", "e", "d", "i", "c", "t", "i", "o",
      "n", "s">>

\* "/api/stats"
PATH_API_STATS ==
    <<"/", "a", "p", "i", "/", "s", "t", "a", "t", "s">>

\* "/history"
PATH_HISTORY ==
    <<"/", "h", "i", "s", "t", "o", "r", "y">>

\* "/favicon.ico"
PATH_FAVICON ==
    <<"/", "f", "a", "v", "i", "c", "o", "n", ".", "i", "c", "o">>

\* "beef.example"
HOST_ORIGIN ==
    <<"b", "e", "e", "f", ".", "e", "x", "a", "m", "p", "l", "e">>

\* "cdn.jsdelivr.net.example"
HOST_CDN_LOOKALIKE ==
    <<"c", "d", "n", ".", "j", "s", "d", "e", "l", "i", "v", "r", ".", "n",
      "e", "t", ".", "e", "x", "a", "m", "p", "l", "e">>

\* CACHE_BLACKLIST, and a list that lost its second pattern
CACHE_BLACKLIST_PredictOnly == {PATH_API_PREDICT}

CACHE_BLACKLIST == {PATH_API_PREDICT, PATH_API_HEALTH}

-----------------------------------------------------------------------------
(* Service worker: requests and responses *)

Url(host, path) == [host |-> host, path |-> path]

Req(method, host, path, destination) ==
    [method |-> method, url |-> Url(host, path), destination |-> destination]

\* the requests the worker is exercised with
Requests ==
    { Req("GET", HOST_ORIGIN, PATH_ROOT, "document"),
      Req("GET", HOST_ORIGIN, PATH_APP_JS, "script"),
      Req("GET", HOST_ORIGIN, PATH_MANIFEST, "manifest"),
      Req("GET", HOST_CDN, PATH_CDN_CSS, "style"),
      Req("GET", HOST_CDN_LOOKALIKE, PATH_API_STATS, ""),
      Req("GET", HOST_ORIGIN, PATH_API_PREDICT, ""),
      Req("GET", HOST_ORIGIN, PATH_API_HEALTH, ""),
      Req("GET", HOST_ORIGIN, PATH_API_PREDICTIONS, ""),
      Req("GET", HOST_ORIGIN, PATH_API_STATS, ""),
      Req("GET", HOST_ORIGIN, PATH_API_STATS, "document"),
      Req("GET", HOST_ORIGIN, PATH_HISTORY, "document"),
      Req("GET", HOST_ORIGIN, PATH_FAVICON, "image"),
      Req("POST", HOST_ORIGIN, PATH_API_PREDICT, ""),
      Req("POST", HOST_ORIGIN, PATH_APP_JS, ""),
      Req("POST", HOST_ORIGIN, PATH_API_STATS, ""),
      Req("POST", HOST_ORIGIN, PATH_HISTORY, "") }

\* the page's navigations, one request of each caching strategy, and a
\* form post
NavigationRequests ==
    { Req("GET", HOST_ORIGIN, PATH_ROOT, "document"),
      Req("GET", HOST_ORIGIN, PATH_API_STATS, "document"),
      Req("GET", HOST_ORIGIN, PATH_HISTORY, "document"),
      Req("POST", HOST_ORIGIN, PATH_HISTORY, "") }

\* the part of STATIC_ASSETS that is among the urls above
STATIC_ASSETS ==
    { Url(HOST_ORIGIN, PATH_ROOT), Url(HOST_ORIGIN, PATH_APP_JS),
      Url(HOST_ORIGIN, PATH_MANIFEST), Url(HOST_CDN, PATH_CDN_CSS) }

\* what the handler hands to respondWith, or what the page gets
\*   kind "response" : a Response (status, body, X-Served-From-Cache)
\*   kind "error"    : the promise rejected (network error for the page)
\*   kind "null"     : the promise resolved with null
\*   kind "none"     : nothing yet
Response(status, body) ==
    [kind |-> "response", status |-> status, body |-> body, servedFromCache |-> FALSE]
NetworkError == [kind |-> "error", status |-> 0, body |-> None, servedFromCache |-> FALSE]
NullResponse == [kind |-> "null", status |-> 0, body |-> None, servedFromCache |-> FALSE]
NoReply == [kind |-> "none", status |-> 0, body |-> None, servedFromCache |-> FALSE]

\* the rejection of a fetch aborted by AbortSignal.timeout
TimeoutError == [kind |-> "error", status |-> 0, body |-> "timeout", servedFromCache |-> FALSE]

\* what the network can answer to a fetch: a 2xx, a non-2xx, or a rejection
NetworkOutcomes == {Response(200, "fresh"), Response(404, "fresh"), NetworkError}

\* response.ok, and a variant true of every response
ResponseOk_AnyStatus(r) == r.kind = "response"

ResponseOk(r) == r.kind = "response" /\ r.status >= 200 /\ r.status <= 299

Entry(url, r) == [url |-> url, status |-> r.status, body |-> r.body]

\* caches.match(request, {cacheName}): the entry's response, or undefined
CacheMatch(store, name, url) ==
    IF name \in DOMAIN store /\ \E e \in store[name] : e.url = url
    THEN LET e == CHOOSE e \in store[name] : e.url = url
         IN  Response(e.status, e.body)
    ELSE NoReply

\* the order in which the origin's caches were created: the previous
\* version's, another script's, then this version's
CacheCreationOrder ==
    <<OLD_STATIC_CACHE_NAME, OLD_DYNAMIC_CACHE_NAME, FOREIGN_CACHE_NAME,
      STATIC_CACHE_NAME, DYNAMIC_CACHE_NAME>>

\* caches.match(request) with no cache named: every cache of the origin is
\* searched, in the order of creation, and the first match is the result
CacheMatchAny(store, url) ==
    LET hits == {k \in 1..Len(CacheCreationOrder) :
                    CacheMatch(store, CacheCreationOrder[k], url) # NoReply}
    IN  IF hits = {}
        THEN NoReply
        ELSE CacheMatch(store,
                        CacheCreationOrder[CHOOSE k \in hits : \A j \in hits : k <= j],
                        url)

\* caches.open(name) then cache.put(request, response): the cache is
\* created if missing and the entry of the same url is replaced
CachePut(store, name, url, r) ==
    LET old == IF name \in DOMAIN store THEN store[name] ELSE {}
        new == {e \in old : e.url # url} \cup {Entry(url, r)}
    IN  [n \in DOMAIN store \cup {name} |-> IF n = name THEN new ELSE store[n]]

\* cache stores the worker can start from
EmptyStore == [n \in {} |-> {}]

PrewarmedStore ==
    [n \in {STATIC_CACHE_NAME} |->
        {Entry(u, Response(200, "cached")) : u \in STATIC_ASSETS}]

UsedStore ==
    [n \in {STATIC_CACHE_NAME, DYNAMIC_CACHE_NAME} |->
        IF n = STATIC_CACHE_NAME
        THEN {Entry(u, Response(200, "cached")) : u \in STATIC_ASSETS}
        ELSE {Entry(Url(HOST_ORIGIN, q), Response(200, "cached")) :
                 q \in {PATH_API_STATS, PATH_HISTORY, PATH_API_HEALTH}}]

-----------------------------------------------------------------------------
(* Service worker: request predicates *)

\* function shouldBypassCache(pathname), and a variant that compares the
\* whole path
shouldBypassCache_Exact(pathname) ==
    \E pattern \in CACHE_BLACKLIST : pathname = pattern

shouldBypassCache(pathname) ==
    \E pattern \in CACHE_BLACKLIST : StartsWith(pathname, pattern)

\* function isStaticAsset(request), and a variant without the manifest line
isStaticAsset_NoManifest(request) ==
    \/ StartsWith(request.url.path, PATH_STATIC_PREFIX)
    \/ request.url.path = PATH_ROOT
    \/ Includes(request.url.host, HOST_CDN)

isStaticAsset(request) ==
    \/ StartsWith(request.url.path, PATH_STATIC_PREFIX)
    \/ request.url.path = PATH_ROOT
    \/ request.url.path = PATH_MANIFEST
    \/ Includes(request.url.host, HOST_CDN)

\* function isAPIRequest(request)
isAPIRequest(request) == StartsWith(request.url.path, PATH_API_PREFIX)

\* the fetch listener's choice of handler; "none" is the early return that
\* leaves the request to the browser. A variant without the method check.
Dispatch_NoMethodCheck(request) ==
    IF shouldBypassCache(request.url.path) THEN "bypass"
    ELSE IF isStaticAsset(request) THEN "static"
    ELSE IF isAPIRequest(request) THEN "api"
    ELSE "dynamic"

Dispatch(request) ==
    IF request.method # "GET" THEN "none"
    ELSE IF shouldBypassCache(request.url.path) THEN "bypass"
    ELSE IF isStaticAsset(request) THEN "static"
    ELSE IF isAPIRequest(request) THEN "api"
    ELSE "dynamic"

-----------------------------------------------------------------------------
(* Service worker: fetch handling *)

\* A fetch event being handled.
\*   pc       where its handler is suspended
\*   cached   what the handler's first caches.match gave (const cached)
\*   reply    what the page has received
\*   net      what the fetch made for this event settled with
\*   open     handleDynamicRequest's caches.open was called and has not
\*            resolved: its callback, which clones the response, is to run
\*   put      a cache.put was issued and has not completed
\*   fallback createOfflineResponse was called
\*   unavailable   a cache operation of this handler threw
\*   reads / writes / fetches   caches.match calls, cache.put calls and
\*            network fetches made for this event
NewTask(request, handler) ==
    [req |-> request, handler |-> handler,
     pc |-> IF handler \in {"static", "dynamic"} THEN "match" ELSE "fetch",
     cached |-> NoReply,
     reply |-> NoReply, net |-> NoReply, open |-> FALSE, put |-> FALSE,
     fallback |-> FALSE, unavailable |-> FALSE,
     reads |-> 0, writes |-> 0,
     fetches |-> IF handler \in {"static", "dynamic"} THEN 0 ELSE 1]

\* the cache a handler writes to
CacheOf(handler) == IF handler = "static" THEN STATIC_CACHE_NAME ELSE DYNAMIC_CACHE_NAME

\* the storage in order, no handler of a previous worker at work, no sync
\* event received
Pages == {"tab1", "tab2"}

SyncIdle ==
    /\ syncTasks = <<>>
    /\ controlled = Pages
    /\ inbox = [p \in Pages |-> <<>>]
    /\ clock = 0

EnvIdle ==
    /\ storageUnavailable = FALSE
    /\ oldWrite = FALSE
    /\ serverStatuses = Statuses
    /\ SyncIdle
    /\ PageSettled

\* the worker installed and activated, in control of the page
LifecycleDone ==
    /\ lifecycle = "activated"
    /\ installPc = "done"
    /\ installLog \in {"ok", "failed"}
    /\ skipWaitingFlag = (installLog = "ok")
    /\ oldClients = FALSE
    /\ activatePc = "done"
    /\ activateLog = "ok"
    /\ pendingDeletes = {}
    /\ claimed = TRUE

WorkerInit ==
    /\ cacheStore \in {EmptyStore, PrewarmedStore, UsedStore}
    /\ tasks = <<>>
    /\ LifecycleDone
    /\ installLog = IF cacheStore = EmptyStore THEN "failed" ELSE "ok"
    /\ EnvIdle

\* self.addEventListener('fetch', ...)
FetchEvent(request) ==
    /\ lifecycle = "activated"
    /\ Len(tasks) < MaxFetchEvents
    /\ tasks' = Append(tasks, NewTask(request, Dispatch(request)))
    /\ UNCHANGED <<cacheStore, clientVars, lifecycleVars, envVars>>

\* createOfflineResponse(request) for a request that is no document, and a
\* variant without the branch of the API paths
OfflineResponse_Generic(request) == Response(503, "offline_text")

OfflineResponse(request) ==
    IF StartsWith(request.url.path, PATH_API_PREFIX)
    THEN Response(503, "offline_json")
    ELSE Response(503, "offline_text")

\* the first caches.match settles; a variant in which handleStaticAsset
\* goes to the network on a hit as well, as handleDynamicRequest does
CacheMatchSettles_StaticRevalidates(i) ==
    LET t == tasks[i]
        cached == CacheMatch(cacheStore, CacheOf(t.handler), t.req.url)
    IN  /\ t.pc = "match"
        /\ tasks' = [tasks EXCEPT ![i] =
              IF cached # NoReply
              THEN [t EXCEPT !.reads = @ + 1, !.fetches = @ + 1,
                             !.cached = cached,
                             !.reply = cached, !.pc = "revalidate"]
              ELSE [t EXCEPT !.reads = @ + 1, !.fetches = @ + 1, !.pc = "fetch"]]
        /\ UNCHANGED <<cacheStore, clientVars, lifecycleVars, envVars>>

\* a variant in which handleDynamicRequest, as handleStaticAsset, makes
\* its fetch only on a miss
CacheMatchSettles_DynamicCacheFirst(i) ==
    LET t == tasks[i]
        cached == CacheMatch(cacheStore, CacheOf(t.handler), t.req.url)
    IN  /\ t.pc = "match"
        /\ tasks' = [tasks EXCEPT ![i] =
              IF cached # NoReply
              THEN [t EXCEPT !.reads = @ + 1, !.cached = cached,
                             !.reply = cached, !.pc = "done"]
              ELSE [t EXCEPT !.reads = @ + 1, !.fetches = @ + 1, !.pc = "fetch"]]
        /\ UNCHANGED <<cacheStore, clientVars, lifecycleVars, envVars>>

\* the first caches.match of handleStaticAsset / handleDynamicRequest settles
CacheMatchSettles(i) ==
    LET t == tasks[i]
        cached == CacheMatch(cacheStore, CacheOf(t.handler), t.req.url)
    IN  /\ t.pc = "match"
        /\ tasks' = [tasks EXCEPT ![i] =
              IF t.handler = "static"
              THEN IF cached # NoReply
                   THEN [t EXCEPT !.reads = @ + 1, !.cached = cached,
                                  !.reply = cached, !.pc = "done"]
                   ELSE [t EXCEPT !.reads = @ + 1, !.fetches = @ + 1, !.pc = "fetch"]
              ELSE \* handleDynamicRequest: the fetch is issued in both cases
                   IF cached # NoReply
                   THEN [t EXCEPT !.reads = @ + 1, !.fetches = @ + 1,
                                  !.cached = cached,
                                  !.reply = cached, !.pc = "revalidate"]
                   ELSE [t EXCEPT !.reads = @ + 1, !.fetches = @ + 1, !.pc = "fetch"]]
        /\ UNCHANGED <<cacheStore, clientVars, lifecycleVars, envVars>>

\* the handler's code after its fetch settled with `outcome`
AfterFetch(t, outcome) ==
    LET u == [t EXCEPT !.net = outcome]
    IN
    CASE u.handler \in {"none", "bypass"} ->
            [u EXCEPT !.reply = outcome, !.pc = "done"]
      [] u.handler = "static" ->
            IF outcome.kind = "response"
            THEN IF ResponseOk(outcome)
                 THEN [u EXCEPT !.put = TRUE, !.writes = @ + 1,
                                !.reply = outcome, !.pc = "done"]
                 ELSE [u EXCEPT !.reply = outcome, !.pc = "done"]
            ELSE IF u.req.destination = "document"
                 THEN [u EXCEPT !.pc = "shell_match"]
                 ELSE [u EXCEPT !.reply = NetworkError, !.pc = "done"]
      [] u.handler = "api" ->
            IF outcome.kind = "response"
            THEN IF ResponseOk(outcome) /\ u.req.method = "GET"
                 THEN [u EXCEPT !.put = TRUE, !.writes = @ + 1,
                                !.reply = outcome, !.pc = "done"]
                 ELSE [u EXCEPT !.reply = outcome, !.pc = "done"]
            ELSE [u EXCEPT !.pc = "fallback_match"]
      [] u.handler = "dynamic" /\ u.pc = "fetch" ->
            \* the miss: return await fetchPromise. caches.open is called
            \* and not awaited; the response goes to the page
            IF outcome.kind = "response"
            THEN IF ResponseOk(outcome)
                 THEN [u EXCEPT !.open = TRUE, !.reply = outcome, !.pc = "done"]
                 ELSE [u EXCEPT !.reply = outcome, !.pc = "done"]
            ELSE [u EXCEPT !.reply = NullResponse, !.pc = "done"]
      [] OTHER -> \* handleDynamicRequest, the cached response already returned
            IF ResponseOk(outcome)
            THEN [u EXCEPT !.open = TRUE, !.pc = "done"]
            ELSE [u EXCEPT !.pc = "done"]

\* the network fetch of a handler (or of the browser, for a request the
\* listener left alone) settles
NetworkSettles(i) ==
    /\ tasks[i].pc \in {"fetch", "revalidate"}
    /\ \E outcome \in NetworkOutcomes :
          tasks' = [tasks EXCEPT ![i] = AfterFetch(tasks[i], outcome)]
    /\ UNCHANGED <<cacheStore, clientVars, lifecycleVars, envVars>>

\* handleAPIRequest: the signal of AbortSignal.timeout(10000) aborts the
\* fetch, which rejects; and a variant whose fetch is given no signal
SignalTimeoutFires_NoSignal(i) ==
    /\ FALSE
    /\ UNCHANGED vars

SignalTimeoutFires(i) ==
    /\ tasks[i].handler = "api"
    /\ tasks[i].pc = "fetch"
    /\ tasks' = [tasks EXCEPT ![i] = AfterFetch(tasks[i], TimeoutError)]
    /\ UNCHANGED <<cacheStore, clientVars, lifecycleVars, envVars>>

\* handleStaticAsset's catch block: caches.match('/') settles
ShellMatchSettles(i) ==
    LET t == tasks[i]
        fallback == CacheMatchAny(cacheStore, Url(HOST_ORIGIN, PATH_ROOT))
    IN  /\ t.pc = "shell_match"
        /\ tasks' = [tasks EXCEPT ![i] =
              [t EXCEPT !.reads = @ + 1, !.pc = "done",
                        !.reply = IF fallback # NoReply THEN fallback ELSE NetworkError]]
        /\ UNCHANGED <<cacheStore, clientVars, lifecycleVars, envVars>>

\* handleAPIRequest's catch block, and a variant that returns the cached
\* response as it is
FallbackMatchSettles_NoMarker(i) ==
    LET t == tasks[i]
        cached == CacheMatch(cacheStore, DYNAMIC_CACHE_NAME, t.req.url)
    IN  /\ t.pc = "fallback_match"
        /\ tasks' = [tasks EXCEPT ![i] =
              IF cached # NoReply
              THEN [t EXCEPT !.reads = @ + 1, !.pc = "done", !.reply = cached]
              ELSE IF t.req.destination = "document"
              THEN [t EXCEPT !.reads = @ + 1, !.fallback = TRUE,
                             !.pc = "offline_match"]
              ELSE [t EXCEPT !.reads = @ + 1, !.fallback = TRUE, !.pc = "done",
                             !.reply = OfflineResponse(t.req)]]
        /\ UNCHANGED <<cacheStore, clientVars, lifecycleVars, envVars>>

\* handleAPIRequest's catch block: caches.match settles, then
\* createOfflineResponse on a miss
FallbackMatchSettles(i) ==
    LET t == tasks[i]
        cached == CacheMatch(cacheStore, DYNAMIC_CACHE_NAME, t.req.url)
    IN  /\ t.pc = "fallback_match"
        /\ tasks' = [tasks EXCEPT ![i] =
              IF cached # NoReply
              THEN [t EXCEPT !.reads = @ + 1, !.pc = "done",
                             !.reply = [cached EXCEPT !.servedFromCache = TRUE]]
              ELSE IF t.req.destination = "document"
              THEN [t EXCEPT !.reads = @ + 1, !.fallback = TRUE,
                             !.pc = "offline_match"]
              ELSE [t EXCEPT !.reads = @ + 1, !.fallback = TRUE, !.pc = "done",
                             !.reply = OfflineResponse(t.req)]]
        /\ UNCHANGED <<cacheStore, clientVars, lifecycleVars, envVars>>

\* createOfflineResponse for a document: caches.match('/') settles; and a
\* variant that builds the offline page without looking at the match
OfflineMatchSettles_AlwaysPage(i) ==
    LET t == tasks[i]
    IN  /\ t.pc = "offline_match"
        /\ tasks' = [tasks EXCEPT ![i] =
              [t EXCEPT !.reads = @ + 1, !.pc = "done",
                        !.reply = Response(200, "offline_html")]]
        /\ UNCHANGED <<cacheStore, clientVars, lifecycleVars, envVars>>

OfflineMatchSettles(i) ==
    LET t == tasks[i]
        shell == CacheMatchAny(cacheStore, Url(HOST_ORIGIN, PATH_ROOT))
    IN  /\ t.pc = "offline_match"
        /\ tasks' = [tasks EXCEPT ![i] =
              [t EXCEPT !.reads = @ + 1, !.pc = "done",
                        !.reply = IF shell # NoReply THEN shell
                                  ELSE Response(200, "offline_html")]]
        /\ UNCHANGED <<cacheStore, clientVars, lifecycleVars, envVars>>

\* handleDynamicRequest: caches.open(DYNAMIC_CACHE_NAME) resolves and its
\* callback runs c.put(request, response.clone()). On the miss path the
\* same Response was returned to respondWith in the meantime: clone()
\* throws if the page has begun to read its body by now (the rejection is
\* unhandled and no put is made), and succeeds if it has not. On the hit
\* path nobody else holds the Response and clone() succeeds.
CacheOpenSettles(i) ==
    LET t == tasks[i]
    IN  /\ t.open
        /\ \E bodyUsed \in (IF t.cached = NoReply THEN BOOLEAN ELSE {FALSE}) :
              tasks' = [tasks EXCEPT ![i] =
                 IF bodyUsed
                 THEN [t EXCEPT !.open = FALSE]
                 ELSE [t EXCEPT !.open = FALSE, !.put = TRUE, !.writes = @ + 1]]
        /\ UNCHANGED <<cacheStore, clientVars, lifecycleVars, envVars>>

\* a cache.put issued by a handler completes
PutCompletes(i) ==
    LET t == tasks[i]
    IN  /\ t.put
        /\ cacheStore' = CachePut(cacheStore, CacheOf(t.handler), t.req.url, t.net)
        /\ tasks' = [tasks EXCEPT ![i] = [t EXCEPT !.put = FALSE]]
        /\ UNCHANGED <<clientVars, lifecycleVars, envVars>>

\* the steps of the handlers of the fetch events received
HandlerNext ==
    \/ \E i \in 1..Len(tasks) : CacheMatchSettles(i)
    \/ \E i \in 1..Len(tasks) : NetworkSettles(i)
    \/ \E i \in 1..Len(tasks) : SignalTimeoutFires(i)
    \/ \E i \in 1..Len(tasks) : ShellMatchSettles(i)
    \/ \E i \in 1..Len(tasks) : FallbackMatchSettles(i)
    \/ \E i \in 1..Len(tasks) : OfflineMatchSettles(i)
    \/ \E i \in 1..Len(tasks) : CacheOpenSettles(i)
    \/ \E i \in 1..Len(tasks) : PutCompletes(i)

WorkerNext ==
    \/ \E request \in Requests : FetchEvent(request)
    \/ HandlerNext

-----------------------------------------------------------------------------
(* Service worker: the handlers when a cache operation throws *)

\* the first caches.match of handleStaticAsset / handleDynamicRequest
\* rejects: control goes to the function's catch block. handleStaticAsset
\* looks for the shell (a document) or rethrows; handleDynamicRequest,
\* which has not called fetch yet, returns createOfflineResponse(request).
CacheMatchThrows(i) ==
    LET t == tasks[i]
        u == [t EXCEPT !.reads = @ + 1, !.unavailable = TRUE]
    IN  /\ storageUnavailable
        /\ t.pc = "match"
        /\ tasks' = [tasks EXCEPT ![i] =
              IF t.handler = "static"
              THEN IF t.req.destination = "document"
                   THEN [u EXCEPT !.pc = "shell_match"]
                   ELSE [u EXCEPT !.reply = NetworkError, !.pc = "done"]
              ELSE IF t.req.destination = "document"
                   THEN [u EXCEPT !.fallback = TRUE, !.pc = "offline_match"]
                   ELSE [u EXCEPT !.fallback = TRUE, !.pc = "done",
                                  !.reply = OfflineResponse(t.req)]]
        /\ UNCHANGED <<cacheStore, clientVars, lifecycleVars, envVars>>

\* handleStaticAsset / handleAPIRequest: the fetch was answered 2xx and
\* await caches.open(...) rejects: the response is dropped and control goes
\* to the catch block
CacheOpenThrows(i) ==
    LET t == tasks[i]
    IN  /\ storageUnavailable
        /\ t.pc = "fetch"
        /\ t.handler \in {"static", "api"}
        /\ \E outcome \in {r \in NetworkOutcomes : ResponseOk(r)} :
              LET u == [t EXCEPT !.net = outcome, !.unavailable = TRUE]
              IN  tasks' = [tasks EXCEPT ![i] =
                     IF t.handler = "api"
                     THEN [u EXCEPT !.pc = "fallback_match"]
                     ELSE IF t.req.destination = "document"
                     THEN [u EXCEPT !.pc = "shell_match"]
                     ELSE [u EXCEPT !.reply = NetworkError, !.pc = "done"]]
        /\ UNCHANGED <<cacheStore, clientVars, lifecycleVars, envVars>>

\* a caches.match made in a catch block, or by createOfflineResponse,
\* rejects: nothing catches it and the handler's promise is rejected
SecondMatchThrows(i) ==
    LET t == tasks[i]
    IN  /\ storageUnavailable
        /\ t.pc \in {"shell_match", "fallback_match", "offline_match"}
        /\ tasks' = [tasks EXCEPT ![i] =
              [t EXCEPT !.reads = @ + 1, !.unavailable = TRUE,
                        !.reply = NetworkError, !.pc = "done"]]
        /\ UNCHANGED <<cacheStore, clientVars, lifecycleVars, envVars>>

\* handleDynamicRequest: caches.open(DYNAMIC_CACHE_NAME) rejects; its then
\* callback does not run and nobody handles the rejection
BackgroundOpenThrows(i) ==
    LET t == tasks[i]
    IN  /\ storageUnavailable
        /\ t.open
        /\ tasks' = [tasks EXCEPT ![i] =
              [t EXCEPT !.open = FALSE, !.unavailable = TRUE]]
        /\ UNCHANGED <<cacheStore, clientVars, lifecycleVars, envVars>>

\* a cache.put, which no handler awaits, rejects
PutThrows(i) ==
    LET t == tasks[i]
    IN  /\ storageUnavailable
        /\ t.put
        /\ tasks' = [tasks EXCEPT ![i] =
              [t EXCEPT !.put = FALSE, !.unavailable = TRUE]]
        /\ UNCHANGED <<cacheStore, clientVars, lifecycleVars, envVars>>

\* the requests the failing storage is exercised with: the navigations, and
\* one request of each strategy that is no document
UnavailableRequests ==
    NavigationRequests \cup
    { Req("GET", HOST_ORIGIN, PATH_APP_JS, "script"),
      Req("GET", HOST_ORIGIN, PATH_API_STATS, ""),
      Req("GET", HOST_ORIGIN, PATH_FAVICON, "image") }

UnavailableInit ==
    /\ cacheStore \in {EmptyStore, PrewarmedStore, UsedStore}
    /\ tasks = <<>>
    /\ LifecycleDone
    /\ installLog = IF cacheStore = EmptyStore THEN "failed" ELSE "ok"
    /\ storageUnavailable \in BOOLEAN
    /\ oldWrite = FALSE
    /\ serverStatuses = Statuses
    /\ SyncIdle
    /\ PageSettled

UnavailableNext ==
    \/ \E request \in UnavailableRequests : FetchEvent(request)
    \/ HandlerNext
    \/ \E i \in 1..Len(tasks) : CacheMatchThrows(i)
    \/ \E i \in 1..Len(tasks) : CacheOpenThrows(i)
    \/ \E i \in 1..Len(tasks) : SecondMatchThrows(i)
    \/ \E i \in 1..Len(tasks) : BackgroundOpenThrows(i)
    \/ \E i \in 1..Len(tasks) : PutThrows(i)

-----------------------------------------------------------------------------
(* Service worker: install and activate *)

\* caches.delete(name)
CacheDelete(store, name) == [n \in DOMAIN store \ {name} |-> store[n]]

\* caches.open(name): the cache is created, empty, if it does not exist
CacheOpen(store, name) ==
    [n \in DOMAIN store \cup {name} |-> IF n \in DOMAIN store THEN store[n] ELSE {}]

\* staticCache.addAll(STATIC_ASSETS), all requests answered 2xx: every
\* asset's entry is put, replacing the entry of the same url
CacheAddAll(store, name, urls) ==
    [n \in DOMAIN store |->
        IF n = name
        THEN {e \in store[n] : e.url \notin urls}
                \cup {Entry(u, Response(200, "cached")) : u \in urls}
        ELSE store[n]]

\* the caches of the previous version, with another script's cache
OldGenerationStore ==
    [n \in {OLD_STATIC_CACHE_NAME, OLD_DYNAMIC_CACHE_NAME, FOREIGN_CACHE_NAME} |->
        IF n = OLD_STATIC_CACHE_NAME
        THEN {Entry(u, Response(200, "old")) : u \in STATIC_ASSETS}
        ELSE IF n = OLD_DYNAMIC_CACHE_NAME
        THEN {Entry(Url(HOST_ORIGIN, PATH_HISTORY), Response(200, "old"))}
        ELSE {Entry(Url(HOST_ORIGIN, PATH_FAVICON), Response(200, "other"))}]

\* the worker script was registered and evaluated: the install event is
\* being dispatched
LifecycleInit ==
    /\ cacheStore \in {EmptyStore, OldGenerationStore, UsedStore}
    /\ tasks = <<>>
    /\ lifecycle = "installing"
    /\ installPc = "open"
    /\ installLog = "none"
    /\ skipWaitingFlag = FALSE
    /\ oldClients \in BOOLEAN
    /\ activatePc = "idle"
    /\ activateLog = "none"
    /\ pendingDeletes = {}
    /\ claimed = FALSE
    /\ storageUnavailable = FALSE
    /\ oldWrite \in (IF cacheStore = OldGenerationStore /\ oldClients
                     THEN BOOLEAN ELSE {FALSE})
    /\ serverStatuses = Statuses
    /\ SyncIdle
    /\ PageSettled

\* install listener: await caches.open(STATIC_CACHE_NAME)
InstallOpenSettles ==
    /\ installPc = "open"
    /\ cacheStore' = CacheOpen(cacheStore, STATIC_CACHE_NAME)
    /\ installPc' = "addAll"
    /\ UNCHANGED <<tasks, clientVars, envVars, lifecycle, installLog, skipWaitingFlag,
                   oldClients, activatePc, activateLog, pendingDeletes, claimed>>

\* install listener: await staticCache.addAll(STATIC_ASSETS) settles.
\* Fulfilled: the assets are in the cache, skipWaiting() is called.
\* Rejected (an asset could not be fetched, or was answered non-2xx):
\* nothing was put, the catch block logs the error. Either way the async
\* function returns, so the promise given to waitUntil is fulfilled.
AddAllSettles ==
    /\ installPc = "addAll"
    /\ \E fulfilled \in BOOLEAN :
          IF fulfilled
          THEN /\ cacheStore' = CacheAddAll(cacheStore, STATIC_CACHE_NAME, STATIC_ASSETS)
               /\ installLog' = "ok"
               /\ skipWaitingFlag' = TRUE
          ELSE /\ installLog' = "failed"
               /\ UNCHANGED <<cacheStore, skipWaitingFlag>>
    /\ installPc' = "done"
    /\ UNCHANGED <<tasks, clientVars, envVars, lifecycle, oldClients, activatePc,
                   activateLog, pendingDeletes, claimed>>

\* the promise given to the install event's waitUntil is fulfilled: the
\* browser marks the worker installed (waiting)
InstallFinishes ==
    /\ lifecycle = "installing"
    /\ installPc = "done"
    /\ lifecycle' = "installed"
    /\ UNCHANGED <<workerVars, clientVars, envVars, installPc, installLog, skipWaitingFlag,
                   oldClients, activatePc, activateLog, pendingDeletes, claimed>>

\* message listener, event.data.type === 'SKIP_WAITING'
MessageSkipWaiting ==
    /\ ~skipWaitingFlag
    /\ skipWaitingFlag' = TRUE
    /\ UNCHANGED <<workerVars, clientVars, envVars, lifecycle, installPc, installLog,
                   oldClients, activatePc, activateLog, pendingDeletes, claimed>>

\* the pages the previous worker controls are closed
OldClientsClose ==
    /\ oldClients
    /\ oldClients' = FALSE
    /\ UNCHANGED <<workerVars, clientVars, envVars, lifecycle, installPc, installLog,
                   skipWaitingFlag, activatePc, activateLog, pendingDeletes, claimed>>

\* the browser activates a waiting worker when no page is controlled by
\* the previous one or skipWaiting() was called: this worker replaces the
\* previous one, the activate event is dispatched and the listener calls
\* caches.keys()
ActivateEvent ==
    /\ lifecycle = "installed"
    /\ skipWaitingFlag \/ ~oldClients
    /\ lifecycle' = "activating"
    /\ activatePc' = "keys"
    /\ oldClients' = FALSE
    /\ UNCHANGED <<workerVars, clientVars, envVars, installPc, installLog, skipWaitingFlag,
                   activateLog, pendingDeletes, claimed>>

\* activate listener: cacheNames.filter(...)
cachesToDelete(cacheNames) ==
    {cacheName \in cacheNames :
        /\ StartsWith(cacheName, CACHE_NAME_PREFIX)
        /\ cacheName # STATIC_CACHE_NAME
        /\ cacheName # DYNAMIC_CACHE_NAME}

\* activate listener: await caches.keys() settles; caches.delete is called
\* for every name that passes the filter, and Promise.all awaited (it is
\* fulfilled at once, and clients.claim() called, when none passes)
CacheKeysSettles ==
    /\ activatePc = "keys"
    /\ pendingDeletes' = cachesToDelete(DOMAIN cacheStore)
    /\ activatePc' = IF pendingDeletes' = {} THEN "claim" ELSE "deleting"
    /\ UNCHANGED <<workerVars, clientVars, envVars, lifecycle, installPc, installLog,
                   skipWaitingFlag, oldClients, activateLog, claimed>>

\* a caches.delete(cacheName) of the activate listener settles. Promise.all
\* is fulfilled when the last one is, and then clients.claim() is called;
\* it is rejected with the first rejection, and then the catch block logs
\* and the async function returns while the other deletions go on.
CacheDeleteSettles(cacheName) ==
    /\ cacheName \in pendingDeletes
    /\ pendingDeletes' = pendingDeletes \ {cacheName}
    /\ \E fulfilled \in BOOLEAN :
          /\ cacheStore' = IF fulfilled THEN CacheDelete(cacheStore, cacheName)
                           ELSE cacheStore
          /\ IF activatePc # "deleting"
             THEN UNCHANGED <<activatePc, activateLog>>
             ELSE IF ~fulfilled
             THEN activatePc' = "done" /\ activateLog' = "failed"
             ELSE /\ activatePc' = IF pendingDeletes' = {} THEN "claim" ELSE "deleting"
                  /\ UNCHANGED activateLog
    /\ UNCHANGED <<tasks, clientVars, envVars, lifecycle, installPc, installLog,
                   skipWaitingFlag, oldClients, claimed>>

\* activate listener: await self.clients.claim() settles
ClientsClaimSettles ==
    /\ activatePc = "claim"
    /\ claimed' = TRUE
    /\ activateLog' = "ok"
    /\ activatePc' = "done"
    /\ UNCHANGED <<workerVars, clientVars, envVars, lifecycle, installPc, installLog,
                   skipWaitingFlag, oldClients, pendingDeletes>>

\* the promise given to the activate event's waitUntil is fulfilled: the
\* browser marks the worker activated
ActivateFinishes ==
    /\ lifecycle = "activating"
    /\ activatePc = "done"
    /\ lifecycle' = "activated"
    /\ UNCHANGED <<workerVars, clientVars, envVars, installPc, installLog, skipWaitingFlag,
                   oldClients, activatePc, activateLog, pendingDeletes, claimed>>

\* handleDynamicRequest of the previous version of this script, which a
\* page called before the new worker took over: its fetch was answered 2xx
\* and caches.open(DYNAMIC_CACHE_NAME).then(c => c.put(...)) runs, with the
\* previous version's cache name. caches.open creates the cache if it is
\* not there.
PreviousWorkerPutCompletes ==
    /\ oldWrite
    /\ oldWrite' = FALSE
    /\ cacheStore' = CachePut(cacheStore, OLD_DYNAMIC_CACHE_NAME,
                              Url(HOST_ORIGIN, PATH_HISTORY), Response(200, "fresh"))
    /\ UNCHANGED <<tasks, clientVars, lifecycleVars, pageVars, storageUnavailable, serverStatuses,
                   syncVars>>

LifecycleNext ==
    \/ PreviousWorkerPutCompletes
    \/ InstallOpenSettles
    \/ AddAllSettles
    \/ InstallFinishes
    \/ MessageSkipWaiting
    \/ OldClientsClose
    \/ ActivateEvent
    \/ CacheKeysSettles
    \/ \E cacheName \in DOMAIN cacheStore : CacheDeleteSettles(cacheName)
    \/ ClientsClaimSettles
    \/ ActivateFinishes

-----------------------------------------------------------------------------
(* Service worker: background sync *)

\* the tag the listener acts on, and another one
SYNC_TAG == "background-sync"

SyncTags == {SYNC_TAG, "other-sync"}

\* the message performBackgroundSync posts
SyncMessage(timestamp) == [type |-> "BACKGROUND_SYNC_SUCCESS", timestamp |-> timestamp]

\* self.addEventListener('sync', ...): performBackgroundSync is called,
\* and calls fetch('/api/health'), for the tag 'background-sync' only
\*   probes   fetches of /api/health made for this event
\*   probe    what the fetch settled with
\*   posted   the pages a message was posted to
\*   log      "ok" / "failed": what performBackgroundSync wrote to the console
SyncEvent(tag) ==
    /\ lifecycle = "activated"
    /\ Len(syncTasks) < MaxSyncSignals
    /\ syncTasks' = Append(syncTasks,
          [tag |-> tag,
           pc |-> IF tag = SYNC_TAG THEN "probe" ELSE "done",
           probes |-> IF tag = SYNC_TAG THEN 1 ELSE 0,
           probe |-> NoReply, posted |-> {}, log |-> "none"])
    /\ UNCHANGED <<clientVars, workerVars, lifecycleVars, pageVars, storageUnavailable, oldWrite,
                   serverStatuses,
                   controlled, inbox, clock>>

\* await fetch('/api/health') settles, and a variant that fetches again
\* when the probe failed
ProbeSettles_Retries(i) ==
    LET t == syncTasks[i]
    IN  /\ t.pc = "probe"
        /\ \E outcome \in NetworkOutcomes :
              syncTasks' = [syncTasks EXCEPT ![i] =
                 IF ResponseOk(outcome)
                 THEN [t EXCEPT !.probe = outcome, !.log = "ok", !.pc = "matchAll"]
                 ELSE [t EXCEPT !.probe = outcome, !.probes = @ + 1]]
        /\ UNCHANGED <<clientVars, workerVars, lifecycleVars, pageVars, storageUnavailable, oldWrite,
                   serverStatuses,
                       controlled, inbox, clock>>

\* await fetch('/api/health') settles: clients.matchAll() is called if
\* response.ok; nothing is done for another status; the catch block logs
\* a rejection
ProbeSettles(i) ==
    LET t == syncTasks[i]
    IN  /\ t.pc = "probe"
        /\ \E outcome \in NetworkOutcomes :
              syncTasks' = [syncTasks EXCEPT ![i] =
                 IF ResponseOk(outcome)
                 THEN [t EXCEPT !.probe = outcome, !.log = "ok", !.pc = "matchAll"]
                 ELSE IF outcome.kind = "response"
                 THEN [t EXCEPT !.probe = outcome, !.pc = "done"]
                 ELSE [t EXCEPT !.probe = outcome, !.log = "failed", !.pc = "done"]]
        /\ UNCHANGED <<clientVars, workerVars, lifecycleVars, pageVars, storageUnavailable, oldWrite,
                   serverStatuses,
                       controlled, inbox, clock>>

\* await self.clients.matchAll() settles and clients.forEach posts the
\* message, with the time of the moment, to each page returned
MatchAllSettles(i) ==
    LET t == syncTasks[i]
    IN  /\ t.pc = "matchAll"
        /\ inbox' = [p \in Pages |->
              IF p \in controlled THEN Append(inbox[p], SyncMessage(clock))
              ELSE inbox[p]]
        /\ syncTasks' = [syncTasks EXCEPT ![i] =
              [t EXCEPT !.posted = controlled, !.pc = "done"]]
        /\ UNCHANGED <<clientVars, workerVars, lifecycleVars, pageVars, storageUnavailable, oldWrite,
                   serverStatuses,
                       controlled, clock>>

\* time passes
ClockTicks ==
    /\ clock < MaxClock
    /\ clock' = clock + 1
    /\ UNCHANGED <<clientVars, workerVars, lifecycleVars, pageVars, storageUnavailable, oldWrite,
                   serverStatuses,
                   syncTasks, controlled, inbox>>

\* the worker in control of some of the open pages
SyncInit ==
    /\ cacheStore = PrewarmedStore
    /\ tasks = <<>>
    /\ LifecycleDone
    /\ installLog = "ok"
    /\ storageUnavailable = FALSE
    /\ oldWrite = FALSE
    /\ serverStatuses = Statuses
    /\ syncTasks = <<>>
    /\ controlled \in SUBSET Pages
    /\ inbox = [p \in Pages |-> <<>>]
    /\ clock = 0
    /\ PageSettled

SyncNext ==
    \/ \E tag \in SyncTags : SyncEvent(tag)
    \/ \E i \in 1..Len(syncTasks) : ProbeSettles(i)
    \/ \E i \in 1..Len(syncTasks) : MatchAllSettles(i)
    \/ ClockTicks

-----------------------------------------------------------------------------
(* Specifications: the page's prediction client, the service worker's      *)
(* fetch handling, and the service worker from its installation on        *)

\* the page, with the worker's caches as installed and no request in hand
Init ==
    /\ ClientInit
    /\ cacheStore = PrewarmedStore
    /\ tasks = <<>>
    /\ LifecycleDone
    /\ installLog = "ok"
    /\ EnvIdle

Next == ClientNext

Spec == Init /\ [][Next]_vars

\* the worker, with the page at rest
WorkerSpecInit == ClientInit /\ WorkerInit

WorkerSpec == WorkerSpecInit /\ [][WorkerNext]_vars

\* the worker from its registration on: install, activation, and then the
\* page's navigations
LifecycleSpecInit == ClientInit /\ LifecycleInit

ServiceWorkerNext ==
    \/ LifecycleNext
    \/ \E request \in NavigationRequests : FetchEvent(request)
    \/ HandlerNext

LifecycleSpec == LifecycleSpecInit /\ [][ServiceWorkerNext]_vars

\* the worker with a cache storage that may throw
UnavailableSpecInit == ClientInit /\ UnavailableInit

UnavailableSpec == UnavailableSpecInit /\ [][UnavailableNext]_vars

\* the page with a server that is failing: one that refuses the upload,
\* and one for each way of answering with a 5xx status
ServerBehaviours == {{200, 400, 413}, {500}, {502}, {503}}

ServerErrorInit ==
    /\ ClientInit
    /\ cacheStore = PrewarmedStore
    /\ tasks = <<>>
    /\ LifecycleDone
    /\ installLog = "ok"
    /\ storageUnavailable = FALSE
    /\ oldWrite = FALSE
    /\ serverStatuses \in ServerBehaviours
    /\ SyncIdle
    /\ PageSettled

ServerErrorSpec == ServerErrorInit /\ [][Next]_vars

\* the worker's background sync
SyncSpecInit == ClientInit /\ SyncInit

SyncSpec == SyncSpecInit /\ [][SyncNext]_vars

\* the worker in place with its caches, the storage and the server in order
WorkerSettled ==
    /\ cacheStore = PrewarmedStore
    /\ tasks = <<>>
    /\ LifecycleDone
    /\ installLog = "ok"
    /\ storageUnavailable = FALSE
    /\ oldWrite = FALSE
    /\ serverStatuses = Statuses
    /\ SyncIdle

\* the page's system monitoring from the end of its start-up on
HealthSpecInit == ClientInit /\ WorkerSettled /\ HealthInit /\ CameraSettled

HealthSpec == HealthSpecInit /\ [][HealthNext]_vars

\* the page's camera from the end of its start-up on
CameraSpecInit == ClientInit /\ WorkerSettled /\ HealthSettled /\ CameraInit

CameraSpec == CameraSpecInit /\ [][CameraNext]_vars

-----------------------------------------------------------------------------
(* Properties of the prediction client *)

Attempts == call.attempts

NonTerminal(c) == Phase(c) \in {"Submitting", "Retrying"}

\* the retryable failures of the retry policy: an HTTP status >= 500, or a
\* transport-level failure
RetryableFailure(a) ==
    /\ a.settled
    /\ \/ a.error.kind = "APIError" /\ a.error.status >= 500
       \/ a.error = TransportError

AllBeforeRetryable(i) == \A j \in 1..(i - 1) : RetryableFailure(Attempts[j])

\* what a click answered "in progress" must leave alone
submissionVars == <<currentImageFile, predictionInProgress, call, inFlight, pc,
                    retryCount, elapsed, willSettle, response, timerArmed, netCalls,
                    resultState, historyHead>>

\* C1: single-flight. At most one submission is non-terminal at any time,
\* every fetch issued belongs to its attempt sequence, and a click made
\* while a submission is Submitting or Retrying is rejected: it starts no
\* attempt sequence, issues no fetch and leaves the submission in flight
\* as it is.
C1_SingleFlight ==
    /\ [](/\ inFlight \in {0, 1}
          /\ (inFlight = 1) <=> NonTerminal(call)
          /\ NonTerminal(call) => predictionInProgress
          /\ netCalls = Len(Attempts))
    /\ [][busyClicks' = busyClicks + 1 =>
             /\ NonTerminal(call)
             /\ UNCHANGED submissionVars]_vars

\* a click was rejected during the submission in flight (the count starts
\* at zero on every accept), and that submission has gone on, through its
\* retry delay, to its second attempt
C1_Witness ==
    /\ busyClicks >= 1
    /\ pc = "fetch"
    /\ Len(Attempts) = 2
    /\ inFlight = 1

\* C2 as stated: if the first k attempts fail with a retryable error and
\* attempt k+1 receives a 2xx response, the submission is Succeeded with
\* exactly k+1 attempts and holds the parsed result.
C2_SuccessAfterRetries_Original ==
    \A i \in 1..Len(Attempts) :
        (/\ Attempts[i].settled
         /\ Ok(Attempts[i].status)
         /\ AllBeforeRetryable(i))
        => (/\ Phase(call) = "Succeeded"
            /\ Len(Attempts) = i
            /\ call.result = "parsed")

\* C2, amended: for k in 0..3, while the first k attempts have failed with
\* a retryable error the submission goes on to attempt k+1 (it is waiting
\* in the retry delay, not failed), and when attempt k+1 receives a 2xx
\* response whose body parses as JSON the submission is Succeeded with
\* exactly k+1 attempts and holds the parsed result.
C2_SuccessAfterRetries ==
    /\ \A i \in 1..Len(Attempts) :
          (/\ Attempts[i].settled
           /\ Ok(Attempts[i].status)
           /\ Attempts[i].error = NoError
           /\ AllBeforeRetryable(i))
          => (/\ Phase(call) = "Succeeded"
              /\ Len(Attempts) = i
              /\ call.result = "parsed"
              /\ netCalls = i)
    /\ \A k \in 1..MAX_RETRIES :
          (Len(Attempts) = k /\ AllBeforeRetryable(k + 1))
          => (pc = "delay" /\ Phase(call) = "Retrying")

\* three retryable failures (a 503 and a transport failure among them),
\* then success on the fourth attempt
C2_Witness ==
    /\ Phase(call) = "Succeeded"
    /\ Len(Attempts) = 4
    /\ AllBeforeRetryable(4)
    /\ \E j \in 1..3 : Attempts[j].error = APIError(503)
    /\ \E j \in 1..3 : Attempts[j].error = TransportError
    /\ Attempts[4].status = 200

\* C3: no submission makes more than 4 attempts (attempt indices 0..3); a
\* submission whose attempts all fail with a retryable error is Failed
\* after exactly 4 attempts, carrying the error of the 4th.
C3_RetriesExhausted ==
    /\ Len(Attempts) <= MAX_RETRIES + 1
    /\ netCalls <= MAX_RETRIES + 1
    /\ retryCount \in 0..MAX_RETRIES
    /\ \A i \in 1..Len(Attempts) : Attempts[i].attemptIndex = i - 1
    /\ (Len(Attempts) = MAX_RETRIES + 1 /\ AllBeforeRetryable(MAX_RETRIES + 2))
       => (Phase(call) = "Failed" /\ call.error = Attempts[MAX_RETRIES + 1].error)
    /\ (Phase(call) = "Failed" /\ AllBeforeRetryable(Len(Attempts) + 1))
       => Len(Attempts) = MAX_RETRIES + 1

\* offline: four transport failures; and a run ending in a 503 after
\* earlier failures of the other kind
C3_Witness ==
    /\ Phase(call) = "Failed"
    /\ Len(Attempts) = 4
    /\ \A j \in 1..4 : Attempts[j].error = TransportError
    /\ call.error = TransportError

\* C4: an attempt that receives a status in 400..499 is the last attempt
\* of its submission, whatever its index: the submission is Failed with
\* the APIError of exactly that status.
C4_ClientErrorIsFatal ==
    \A i \in 1..Len(Attempts) :
        (Attempts[i].settled /\ Attempts[i].status \in 400..499)
        => (/\ i = Len(Attempts)
            /\ Phase(call) = "Failed"
            /\ call.error = APIError(Attempts[i].status)
            /\ pc = "idle")

\* a 404 on the third attempt, after two retried failures
C4_Witness ==
    /\ Len(Attempts) = 3
    /\ Attempts[3].status = 404
    /\ Attempts[3].settled
    /\ AllBeforeRetryable(3)
    /\ Phase(call) = "Failed"

\* C5: a pending fetch is always under its own armed abort timer and never
\* outlives the 30-unit timeout; an attempt ended by the timer is the last
\* attempt of its submission, whatever its index, and the submission is
\* Failed with the timeout error.
C5_TimeoutIsFatal ==
    /\ pc = "fetch" => (timerArmed /\ elapsed <= TIMEOUT)
    /\ \A i \in 1..Len(Attempts) :
          Attempts[i].error = AbortError
          => (/\ i = Len(Attempts)
              /\ Phase(call) = "Failed"
              /\ call.error = AbortError
              /\ pc = "idle")

\* a timeout on the third attempt
C5_Witness ==
    /\ Len(Attempts) = 3
    /\ Attempts[3].error = AbortError
    /\ AllBeforeRetryable(3)
    /\ Phase(call) = "Failed"

\* C6: termination. A submission that is not terminal always has a next
\* step coming from the client's code, one of its timers or a network that
\* answers: it is never left pending with nothing to end the wait.
C6_NeverPendingForever ==
    NonTerminal(call) => ENABLED ClientProgress

\* C27: one terminal outcome. callPredictionAPI hands executePrediction
\* one result or one error per submission and never both; while the
\* submission is Submitting or Retrying nothing was handed over and no
\* error message was shown, whatever errors its attempts ended in.
C27_OneTerminalOutcome ==
    /\ Phase(call) = "Succeeded"
          => /\ call.delivered = <<"result">>
             /\ call.result # None
             /\ call.error = NoError
    /\ Phase(call) = "Failed"
          => /\ call.delivered = <<"error">>
             /\ call.result = None
             /\ call.error # NoError
    /\ NonTerminal(call) => (call.delivered = <<>> /\ call.messages = <<>>)
    /\ Len(call.messages) <= Len(call.delivered)

\* a result after an attempt that failed and was retried
C27_Witness ==
    /\ Phase(call) = "Succeeded"
    /\ Len(Attempts) = 2
    /\ Attempts[1].error = TransportError
    /\ call.delivered = <<"result">>
    /\ call.messages = <<>>

\* the 5xx statuses
ServerErrorStatus(error) == error.kind = "APIError" /\ error.status >= 500

\* C28: a Failed submission has shown exactly one error message, and the
\* message tells these causes apart: a failed transport (the network text,
\* or the general text when the browser words its error without "fetch"),
\* 413, a 5xx status (the texts of 500 and 503, or the error's own text
\* with the status for another 5xx), and 400. No message of one of the
\* four is shown for another.
C28_FailureMessage ==
    Phase(call) = "Failed"
       => /\ Len(call.messages) = 1
          /\ LET m == call.messages[1]
                 e == call.error
             IN  /\ e = TransportError => m.kind \in {"network", "generic"}
                 /\ m.kind = "network" => e = TransportError
                 /\ m.kind = "generic" => e.kind # "APIError"
                 /\ e = APIError(413) <=> m.kind = "too_large"
                 /\ e = APIError(400) <=> m.kind = "bad_image"
                 /\ ServerErrorStatus(e)
                       => \/ m.kind \in {"server_error", "unavailable"}
                          \/ m.kind = "http_status" /\ m.status = e.status
                 /\ m.kind \in {"server_error", "unavailable"} => ServerErrorStatus(e)
                 /\ m.kind = "http_status" => m.status = e.status

\* four attempts answered 502: the message is the error's text, with the
\* status
C28_Witness ==
    /\ Phase(call) = "Failed"
    /\ Len(Attempts) = 4
    /\ call.error = APIError(502)
    /\ call.messages = <<Message("http_status", 502)>>

\* C29: the attempt history of a terminal submission. The console holds
\* one entry per fetch made, in order, numbered 0, 1, 2, ... without gaps,
\* each with what the attempt ended in: an error for every attempt but the
\* last, and for the last the error the submission failed with or the 2xx
\* status it succeeded with.
C29_AttemptHistory ==
    Phase(call) \in {"Succeeded", "Failed"}
       => /\ Len(Attempts) = netCalls
          /\ \A i \in 1..Len(Attempts) :
                /\ Attempts[i].attemptIndex = i - 1
                /\ Attempts[i].settled
                /\ i < Len(Attempts) => Attempts[i].error # NoError
          /\ LET last == Attempts[Len(Attempts)]
             IN  IF Phase(call) = "Failed"
                 THEN last.error = call.error /\ last.error # NoError
                 ELSE last.error = NoError /\ Ok(last.status)

\* a transport failure, retried, then a 413
C29_Witness ==
    /\ Phase(call) = "Failed"
    /\ netCalls = 2
    /\ Attempts[1].error = TransportError
    /\ Attempts[2].error = APIError(413)
    /\ Attempts[2].attemptIndex = 1

\* the step is the start of a further attempt of the submission in hand
StartsRetry == Len(call.attempts) >= 1 /\ Len(call'.attempts) = Len(call.attempts) + 1

\* C31: one fixed delay between attempts. A further attempt starts only
\* out of the retry delay, when RETRY_DELAY has elapsed since the failure
\* before it, whatever the attempt's number; the client waits in the delay
\* only after an attempt that failed with an error that is retried and
\* that was not the last one allowed, and never once the submission is
\* terminal.
C31_FixedRetryDelay ==
    /\ [](/\ pc = "delay"
             => /\ NonTerminal(call)
                /\ elapsed \in {0, RETRY_DELAY}
                /\ Len(Attempts) <= MAX_RETRIES
                /\ Attempts[Len(Attempts)].settled
                /\ shouldRetry(Attempts[Len(Attempts)].error)
          /\ ~NonTerminal(call) => pc = "idle")
    /\ [][StartsRetry => (pc = "delay" /\ elapsed = RETRY_DELAY /\ pc' = "fetch")]_vars

\* the delay before the third attempt has elapsed
C31_Witness ==
    /\ pc = "delay"
    /\ elapsed = RETRY_DELAY
    /\ Len(Attempts) = 2
    /\ retryCount = 1

\* the step ends the attempt in hand with an AbortError
AbortsAttempt ==
    /\ Len(call.attempts) >= 1
    /\ Len(call'.attempts) = Len(call.attempts)
    /\ ~call.attempts[Len(call.attempts)].settled
    /\ call'.attempts[Len(call.attempts)].error = AbortError

\* C32: timeout isolation. An attempt is aborted only by its own timer:
\* while its fetch is pending, the timer set and TIMEOUT elapsed since the
\* attempt began. A timer that an earlier attempt left set changes
\* nothing when it fires, during a later attempt or after the submission
\* ended: neither the attempt in hand, nor the submission's outcome, nor
\* the number of attempts and fetches.
C32_TimeoutIsolation ==
    /\ [](timerArmed => (pc = "fetch" /\ NonTerminal(call)))
    /\ [][AbortsAttempt => (pc = "fetch" /\ timerArmed /\ elapsed = TIMEOUT)]_vars
    /\ [][staleTimers' < staleTimers
             => UNCHANGED <<call, pc, retryCount, elapsed, willSettle, timerArmed,
                            netCalls, predictionInProgress, inFlight, notification,
                            resultState, historyHead>>]_vars

\* the first attempt ended in a transport failure and left its timer set;
\* that timer has fired, and the second attempt is pending with its own
\* timer set
C32_Witness ==
    /\ Len(Attempts) = 2
    /\ Attempts[1].error = TransportError
    /\ pc = "fetch"
    /\ timerArmed
    /\ staleTimers = 0

\* C36: the in-flight flag. predictionInProgress is true exactly while a
\* submission is Submitting or Retrying: from the accepted click, through
\* every attempt and retry delay, and it is false after every way a
\* submission ends, an exception of displayPredictionResult included; so
\* with an image selected the next click is accepted.
C36_GuardWhileNonTerminal ==
    /\ predictionInProgress <=> NonTerminal(call)
    /\ predictionInProgress <=> pc \in {"fetch", "body", "delay"}
    /\ (~NonTerminal(call) /\ currentImageFile # None)
          => ENABLED (handlePredictionClick /\ predictionInProgress')

\* the result came but displayPredictionResult threw: the error is shown
\* and the flag is cleared
C36_Witness ==
    /\ call.outcome = "result"
    /\ resultState = "error"
    /\ call.messages = <<Message("generic", 0)>>
    /\ ~predictionInProgress
    /\ currentImageFile # None

\* C37: the displayed result belongs to the selected image. Whenever a
\* submission ends with its result shown in the result area, the image it
\* was made for is still the selected one (it was neither discarded by a
\* retake nor replaced by another selection while the submission was in
\* flight), and only then is it put at the head of the history.
C37_ResultOfSelectedImage ==
    [][(call.outcome # "result" /\ call'.outcome = "result" /\ resultState' = "display")
          => (currentImageFile' = call'.image /\ historyHead' = currentImageFile')]_vars

-----------------------------------------------------------------------------
(* Properties of the page's system monitoring and camera *)

\* C38: the displayed system status is the one of the latest probe. The
\* probe whose answer is written to the status display is never an older
\* one than the probe whose answer is displayed already: an answer that
\* arrives after the answer of a probe issued later is not displayed.
C38_LatestProbeWins ==
    [][statusProbe' >= statusProbe]_vars

\* C39: one camera stream, none leaked. The active flag is set exactly
\* when a stream is held, every stream acquired and not stopped is the
\* held one, and right after cleanupCamera no stream is running.
C39_OneStreamNoLeak ==
    /\ [](/\ isStreamActive <=> stream # NoStream
          /\ running \subseteq {stream})
    /\ [][cleanupCamera => running' = {}]_vars

-----------------------------------------------------------------------------
(* Properties of the service worker's fetch listener *)

TaskIds == 1..Len(tasks)

PathOf(i) == tasks[i].req.url.path

IsGet(i) == tasks[i].req.method = "GET"

\* the event went to the network only, and the page got the network's answer
StraightToNetwork(t) ==
    /\ t.pc \in {"fetch", "done"}
    /\ t.reads = 0
    /\ t.writes = 0
    /\ ~t.put
    /\ t.fetches = 1
    /\ t.pc = "done" => t.reply \in NetworkOutcomes

\* C7: a GET request for the prediction or the health endpoint is handled
\* as BYPASS: one network fetch whose outcome, success or failure, is what
\* the page gets; no caches.match and no cache.put is made, whatever the
\* caches hold.
C7_BypassNeverTouchesCache ==
    \A i \in TaskIds :
        (IsGet(i) /\ PathOf(i) \in {PATH_API_PREDICT, PATH_API_HEALTH})
        => (tasks[i].handler = "bypass" /\ StraightToNetwork(tasks[i]))

\* the health endpoint is requested while the dynamic cache holds an entry
\* for it and the network fails: the page gets the failure
C7_Witness ==
    \E i \in TaskIds :
        /\ IsGet(i)
        /\ PathOf(i) = PATH_API_HEALTH
        /\ tasks[i].pc = "done"
        /\ tasks[i].reply = NetworkError
        /\ CacheMatch(cacheStore, DYNAMIC_CACHE_NAME, tasks[i].req.url) # NoReply

\* C8 as stated: a GET request is BYPASS if and only if its path is
\* /api/predict or /api/health; every other GET request is handled by one
\* of the three caching strategies.
C8_BypassListExact_Original ==
    \A i \in TaskIds :
        IsGet(i) =>
            IF PathOf(i) \in {PATH_API_PREDICT, PATH_API_HEALTH}
            THEN tasks[i].handler = "bypass"
            ELSE tasks[i].handler \in {"static", "api", "dynamic"}

\* C8, amended: a GET request is BYPASS if and only if its path begins
\* with /api/predict or with /api/health; every other GET request is
\* handled by one of the three caching strategies.
C8_BypassListPrefix ==
    \A i \in TaskIds :
        IsGet(i) =>
            IF \/ StartsWith(PathOf(i), PATH_API_PREDICT)
               \/ StartsWith(PathOf(i), PATH_API_HEALTH)
            THEN tasks[i].handler = "bypass" /\ StraightToNetwork(tasks[i])
            ELSE tasks[i].handler \in {"static", "api", "dynamic"}

\* /api/predictions, which only begins with a listed path, was answered
\* from the network without a cache read
C8_Witness ==
    \E i \in TaskIds :
        /\ IsGet(i)
        /\ PathOf(i) = PATH_API_PREDICTIONS
        /\ tasks[i].handler = "bypass"
        /\ tasks[i].pc = "done"
        /\ tasks[i].reads = 0

\* the class the rules of C9 give a GET request, with the bypass rule read
\* as the listener applies it (a path beginning with a listed path)
StatedClass(request) ==
    IF \/ StartsWith(request.url.path, PATH_API_PREDICT)
       \/ StartsWith(request.url.path, PATH_API_HEALTH)
    THEN "bypass"
    ELSE IF \/ StartsWith(request.url.path, PATH_STATIC_PREFIX)
            \/ request.url.path = PATH_ROOT
            \/ request.url.host = HOST_CDN
    THEN "static"
    ELSE IF StartsWith(request.url.path, PATH_API_PREFIX) THEN "api"
    ELSE "dynamic"

\* C9 as stated: bypass list, else static-asset root / shell route /
\* allow-listed third-party origin, else API root, else DYNAMIC.
C9_ClassificationOrder_Original ==
    \A i \in TaskIds : IsGet(i) => tasks[i].handler = StatedClass(tasks[i].req)

\* the class of a GET request under the amended rules
AmendedClass(request) ==
    IF \/ StartsWith(request.url.path, PATH_API_PREDICT)
       \/ StartsWith(request.url.path, PATH_API_HEALTH)
    THEN "bypass"
    ELSE IF \/ StartsWith(request.url.path, PATH_STATIC_PREFIX)
            \/ request.url.path = PATH_ROOT
            \/ request.url.path = PATH_MANIFEST
            \/ Includes(request.url.host, HOST_CDN)
    THEN "static"
    ELSE IF StartsWith(request.url.path, PATH_API_PREFIX) THEN "api"
    ELSE "dynamic"

\* C9, amended: the class of a GET request depends on the request alone
\* and is the first match of: bypass list gives BYPASS; else a path under
\* /static/, the shell route /, the manifest route /manifest.json, or a
\* host name containing cdn.jsdelivr.net gives STATIC; else a path under
\* /api/ gives API; else DYNAMIC. Every GET request gets exactly one of
\* the four classes, and a bypass-listed path is BYPASS although it is
\* under /api/.
C9_ClassificationOrder ==
    /\ \A i \in TaskIds :
          IsGet(i) =>
              /\ tasks[i].handler = AmendedClass(tasks[i].req)
              /\ tasks[i].handler \in {"bypass", "static", "api", "dynamic"}
    /\ \A i, j \in TaskIds :
          tasks[i].req = tasks[j].req => tasks[i].handler = tasks[j].handler

\* the manifest was served cache-first, and a request that is under /api/
\* but on a host whose name contains the CDN's was classified STATIC
C9_Witness ==
    /\ \E i \in TaskIds :
          /\ IsGet(i)
          /\ PathOf(i) = PATH_MANIFEST
          /\ tasks[i].handler = "static"
          /\ tasks[i].pc = "done"
    /\ \E i \in TaskIds :
          /\ tasks[i].req.url = Url(HOST_CDN_LOOKALIKE, PATH_API_STATS)
          /\ tasks[i].handler = "static"

\* C10: a request whose method is not GET is left to the browser by the
\* listener: no handler runs for it, it makes one network fetch whose
\* outcome the page gets, and no caches.match and no cache.put is made
\* for it, whatever its path.
C10_NonGetUntouched ==
    \A i \in TaskIds :
        ~IsGet(i) => (tasks[i].handler = "none" /\ StraightToNetwork(tasks[i]))

\* a POST to a static path was answered by the network while the static
\* cache holds, and keeps, its entry for that path
C10_Witness ==
    \E i \in TaskIds :
        /\ tasks[i].req = Req("POST", HOST_ORIGIN, PATH_APP_JS, "")
        /\ tasks[i].pc = "done"
        /\ tasks[i].reply = Response(200, "fresh")
        /\ CacheMatch(cacheStore, STATIC_CACHE_NAME, tasks[i].req.url)
              = Response(200, "cached")

-----------------------------------------------------------------------------
(* Properties of the three caching strategies *)

\* the event's handler missed the cache and its fetch settled with `outcome`
MissThenFetched(t) == t.cached = NoReply /\ t.reads >= 1 /\ t.net # NoReply

NetworkFailed(t) == t.net \in {NetworkError, TimeoutError}

\* the application shell, as caches.match('/') finds it
CachedShell == CacheMatchAny(cacheStore, Url(HOST_ORIGIN, PATH_ROOT))

\* C11: cache-first. A STATIC request whose key is in the static cache
\* when the handler reads it is answered with exactly that cached
\* snapshot, and no network fetch and no cache write is made for it.
C11_CacheFirstHit ==
    /\ [](\A i \in TaskIds :
            (tasks[i].handler = "static" /\ tasks[i].cached # NoReply)
            => (/\ tasks[i].pc = "done"
                /\ tasks[i].reply = tasks[i].cached
                /\ tasks[i].fetches = 0
                /\ tasks[i].net = NoReply
                /\ tasks[i].writes = 0
                /\ ~tasks[i].put))
    /\ [][\A i \in TaskIds :
            (/\ tasks[i].handler = "static"
             /\ tasks[i].pc = "match"
             /\ tasks'[i].pc # "match"
             /\ CacheMatch(cacheStore, STATIC_CACHE_NAME, tasks[i].req.url) # NoReply)
            => (/\ tasks'[i].pc = "done"
                /\ tasks'[i].reply
                      = CacheMatch(cacheStore, STATIC_CACHE_NAME, tasks[i].req.url)
                /\ tasks'[i].fetches = 0)]_vars

\* the app script, pre-cached at install, was answered from the cache
C11_Witness ==
    \E i \in TaskIds :
        /\ tasks[i].req = Req("GET", HOST_ORIGIN, PATH_APP_JS, "script")
        /\ tasks[i].pc = "done"
        /\ tasks[i].reply = Response(200, "cached")
        /\ tasks[i].fetches = 0

\* C12: cache-first write-through ordering. When a STATIC request missed
\* the cache and the page has the 2xx response fetched for it, the static
\* cache holds the entry for its key: a read of that key is a hit.
C12_WriteThroughBeforeReturn ==
    \A i \in TaskIds :
        (/\ tasks[i].handler = "static"
         /\ MissThenFetched(tasks[i])
         /\ ResponseOk(tasks[i].net)
         /\ tasks[i].reply = tasks[i].net)
        => CacheMatch(cacheStore, STATIC_CACHE_NAME, tasks[i].req.url) # NoReply

\* C13: cache-first failure path. When a STATIC request missed the cache
\* and its fetch failed, a document request is answered with the cached
\* application shell, and any other request with the response
\* createOfflineResponse makes for it.
C13_CacheFirstFailure ==
    \A i \in TaskIds :
        (/\ tasks[i].handler = "static"
         /\ MissThenFetched(tasks[i])
         /\ NetworkFailed(tasks[i])
         /\ tasks[i].pc = "done")
        => IF tasks[i].req.destination = "document"
           THEN CachedShell # NoReply => tasks[i].reply = CachedShell
           ELSE tasks[i].reply = OfflineResponse(tasks[i].req)

\* the entry of the event's key in the dynamic cache, read now
StaleEntry(i) == CacheMatch(cacheStore, DYNAMIC_CACHE_NAME, tasks[i].req.url)

\* C14: network-first. For an API request the network is tried first: the
\* cache is read only after the fetch has failed, and a network response
\* of any status is what the page gets. When the fetch has failed, a
\* cached entry is returned with its status and body and the
\* X-Served-From-Cache marker, and without a cached entry the page gets
\* createOfflineResponse's response (for a document the cached shell or
\* the offline page, else the 503 offline payload).
C14_NetworkFirst ==
    /\ [](\A i \in TaskIds :
            tasks[i].handler = "api" =>
                /\ tasks[i].fetches = 1
                /\ tasks[i].reads >= 1 => NetworkFailed(tasks[i])
                /\ tasks[i].net.kind = "response"
                      => (/\ tasks[i].pc = "done"
                          /\ tasks[i].reply = tasks[i].net
                          /\ tasks[i].reads = 0)
                /\ (NetworkFailed(tasks[i]) /\ tasks[i].pc = "done")
                      => tasks[i].reply.kind = "response")
    /\ [][\A i \in TaskIds :
            (/\ tasks[i].handler = "api"
             /\ tasks[i].pc = "fallback_match"
             /\ tasks'[i].pc # "fallback_match")
            => IF StaleEntry(i) # NoReply
               THEN /\ tasks'[i].pc = "done"
                    /\ tasks'[i].reply.status = StaleEntry(i).status
                    /\ tasks'[i].reply.body = StaleEntry(i).body
                    /\ tasks'[i].reply.servedFromCache
               ELSE IF tasks[i].req.destination = "document"
               THEN tasks'[i].pc = "offline_match"
               ELSE /\ tasks'[i].pc = "done"
                    /\ tasks'[i].reply = Response(503, "offline_json")]_vars
    /\ [][\A i \in TaskIds :
            (/\ tasks[i].handler = "api"
             /\ tasks[i].pc = "offline_match"
             /\ tasks'[i].pc # "offline_match")
            => (/\ tasks'[i].pc = "done"
                /\ tasks'[i].reply = IF CachedShell # NoReply THEN CachedShell
                                      ELSE Response(200, "offline_html"))]_vars

\* the network failed for an API request that is cached: it was answered
\* with its stale entry, marked, after one fetch and one cache read
C14_Witness ==
    \E i \in TaskIds :
        /\ tasks[i].req = Req("GET", HOST_ORIGIN, PATH_API_STATS, "")
        /\ tasks[i].handler = "api"
        /\ tasks[i].pc = "done"
        /\ NetworkFailed(tasks[i])
        /\ tasks[i].fetches = 1
        /\ tasks[i].reads = 1
        /\ tasks[i].reply = [Response(200, "cached") EXCEPT !.servedFromCache = TRUE]

\* the entries of the current static and dynamic caches
CurrentEntries ==
    UNION {cacheStore[n] : n \in {STATIC_CACHE_NAME, DYNAMIC_CACHE_NAME} \cap DOMAIN cacheStore}

\* C15: every entry of the static and of the dynamic cache is the snapshot
\* of a 2xx response to a GET request: install puts its assets only when
\* all were answered 2xx, a handler issues a put only for a GET request
\* and a 2xx response, and a non-2xx network response goes to the page
\* without any put.
C15_OnlySuccessCached ==
    /\ \A e \in CurrentEntries : e.status \in 200..299
    /\ \A i \in TaskIds :
          /\ (tasks[i].open \/ tasks[i].put \/ tasks[i].writes > 0)
                => (IsGet(i) /\ tasks[i].net.status \in 200..299)
          /\ (/\ tasks[i].net.kind = "response"
              /\ tasks[i].net.status \notin 200..299)
                => (/\ tasks[i].pc = "done"
                    /\ tasks[i].writes = 0
                    /\ ~tasks[i].open
                    /\ ~tasks[i].put
                    /\ tasks[i].cached = NoReply => tasks[i].reply = tasks[i].net)

\* after a successful install, a page that is not cached was answered 404
\* by the network: the page got the 404 and the dynamic cache has no
\* entry for it
C15_Witness ==
    /\ installLog = "ok"
    /\ CacheMatch(cacheStore, STATIC_CACHE_NAME, Url(HOST_ORIGIN, PATH_ROOT)) # NoReply
    /\ \E i \in TaskIds :
          /\ tasks[i].handler = "dynamic"
          /\ tasks[i].pc = "done"
          /\ tasks[i].reply = Response(404, "fresh")
          /\ StaleEntry(i) = NoReply

\* the event was handled by handleDynamicRequest and hit the cache
DynamicHit(t) == t.handler = "dynamic" /\ t.cached # NoReply

\* C16: stale-while-revalidate hit. A DYNAMIC request whose key is in the
\* dynamic cache is answered with the cached snapshot at the step that
\* reads the cache, while the fetch issued for it is still pending, and
\* the answer never changes afterwards, whatever the fetch does; one
\* fetch is issued for every hit; and once that fetch has returned 2xx a
\* put of the fresh response for the key is under way or has replaced
\* the entry.
C16_StaleWhileRevalidateHit ==
    /\ [](\A i \in TaskIds :
            DynamicHit(tasks[i]) =>
                /\ tasks[i].reply = tasks[i].cached
                /\ tasks[i].fetches = 1
                /\ tasks[i].pc \in {"revalidate", "done"}
                /\ tasks[i].pc = "revalidate" => tasks[i].net = NoReply
                /\ ResponseOk(tasks[i].net)
                      => \/ tasks[i].open
                         \/ tasks[i].put
                         \/ tasks[i].writes = 1 /\ StaleEntry(i) = tasks[i].net
                /\ (tasks[i].pc = "done" /\ ~ResponseOk(tasks[i].net))
                      => (tasks[i].writes = 0 /\ ~tasks[i].open /\ ~tasks[i].put))
    /\ [][\A i \in TaskIds :
            (/\ tasks[i].handler = "dynamic"
             /\ tasks[i].pc = "match"
             /\ tasks'[i].pc # "match"
             /\ StaleEntry(i) # NoReply)
            => (/\ tasks'[i].reply = StaleEntry(i)
                /\ tasks'[i].pc = "revalidate"
                /\ tasks'[i].fetches = 1)]_vars
    /\ [][\A i \in TaskIds :
            DynamicHit(tasks[i]) => tasks'[i].reply = tasks[i].reply]_vars

\* the history page was answered with its cached snapshot, and the
\* background fetch, answered 200, has replaced the entry
C16_Witness ==
    \E i \in TaskIds :
        /\ tasks[i].req = Req("GET", HOST_ORIGIN, PATH_HISTORY, "document")
        /\ DynamicHit(tasks[i])
        /\ tasks[i].reply = Response(200, "cached")
        /\ tasks[i].net = Response(200, "fresh")
        /\ tasks[i].writes = 1
        /\ ~tasks[i].put
        /\ StaleEntry(i) = Response(200, "fresh")

\* C17: stale-while-revalidate miss with a working network. When a
\* DYNAMIC request missed the cache and its fetch returned 2xx, the page
\* gets that response and the response is written through: the put is
\* under way, or the dynamic cache holds an entry for the key.
C17_DynamicMissWriteThrough ==
    \A i \in TaskIds :
        (/\ tasks[i].handler = "dynamic"
         /\ MissThenFetched(tasks[i])
         /\ ResponseOk(tasks[i].net))
        => (/\ tasks[i].reply = tasks[i].net
            /\ \/ tasks[i].open
               \/ tasks[i].put
               \/ StaleEntry(i) # NoReply)

\* C18: when a DYNAMIC request missed the cache and its fetch failed, the
\* handler resolves with createOfflineResponse's response: never with
\* null and never with a rejection.
C18_DynamicMissOffline ==
    \A i \in TaskIds :
        (/\ tasks[i].handler = "dynamic"
         /\ MissThenFetched(tasks[i])
         /\ NetworkFailed(tasks[i]))
        => (/\ tasks[i].reply.kind = "response"
            /\ tasks[i].req.destination # "document"
                  => tasks[i].reply = OfflineResponse(tasks[i].req))

\* C33: network-first waits for the network for a bounded time. While
\* handleAPIRequest waits for its fetch, the abort by the timeout signal is
\* due to come whether or not the network answers; a fetch that timed out
\* is a failed fetch (nothing is written, the cache is read, then
\* createOfflineResponse), and a handler that has finished has answered
\* with a response.
C33_BoundedWait ==
    \A i \in TaskIds :
       tasks[i].handler = "api"
          => /\ tasks[i].pc = "fetch" => ENABLED SignalTimeoutFires(i)
             /\ tasks[i].net = TimeoutError
                   => /\ tasks[i].pc \in {"fallback_match", "offline_match", "done"}
                      /\ tasks[i].reads >= 1 \/ tasks[i].pc = "fallback_match"
                      /\ tasks[i].writes = 0 /\ ~tasks[i].put
             /\ tasks[i].pc = "done" => tasks[i].reply.kind = "response"
             /\ (tasks[i].pc = "done" /\ tasks[i].net = TimeoutError)
                   => (tasks[i].reply.servedFromCache \/ tasks[i].fallback)

\* the network did not answer GET /api/stats in time and the handler gave
\* the cached response, marked
C33_Witness ==
    \E i \in TaskIds :
       /\ tasks[i].handler = "api"
       /\ tasks[i].pc = "done"
       /\ tasks[i].net = TimeoutError
       /\ tasks[i].reply.servedFromCache

-----------------------------------------------------------------------------
(* Properties of install and activation *)

\* every asset of the manifest is in the static cache
ManifestCached ==
    \A u \in STATIC_ASSETS : CacheMatch(cacheStore, STATIC_CACHE_NAME, u) # NoReply

\* C19: atomic install. A worker whose pre-fetch of the manifest failed
\* stays in the installing state and never becomes waiting or active; a
\* worker is past installing only with every manifest asset in the static
\* cache.
C19_AtomicInstall ==
    /\ installLog = "failed" => lifecycle = "installing"
    /\ lifecycle \in {"installed", "activating", "activated"} => ManifestCached

\* C20: activation eviction is complete. Once the worker is activated
\* (taken here in the runs where the activate listener met no error), no
\* cache other than the current static and the current dynamic cache is
\* left, whatever its name; and the current static and the current
\* dynamic cache are never deleted: no deletion of either is ever issued,
\* and the static cache exists from the install listener's caches.open on.
C20_EvictionComplete ==
    /\ (lifecycle = "activated" /\ activateLog = "ok")
          => DOMAIN cacheStore \subseteq {STATIC_CACHE_NAME, DYNAMIC_CACHE_NAME}
    /\ pendingDeletes \cap {STATIC_CACHE_NAME, DYNAMIC_CACHE_NAME} = {}
    /\ installPc # "open" => STATIC_CACHE_NAME \in DOMAIN cacheStore

\* C21: a failed deletion is skipped for that cache only. Whatever
\* caches.delete rejects, once the worker is activated every deletion the
\* activate listener issued has settled and clients.claim() has resolved.
C21_DeletionFailureSkipped ==
    lifecycle = "activated" => (claimed /\ pendingDeletes = {})

\* the caches of the previous version
PreviousGeneration == {OLD_STATIC_CACHE_NAME, OLD_DYNAMIC_CACHE_NAME}

\* C22: once the new worker is activated (taken in the runs where every
\* deletion was fulfilled), no cache of the previous version exists, in
\* every interleaving: a write of a handler of the previous version that
\* completes after the deletion leaves no cache of the previous version
\* behind.
C22_PreviousGenerationUnreachable ==
    (lifecycle = "activated" /\ activateLog = "ok" /\ ~oldWrite)
       => DOMAIN cacheStore \cap PreviousGeneration = {}

\* C30: no request for a static asset is handled before the worker's
\* install listener has put the whole manifest into the static cache and
\* its activate listener has finished the deletions.
C30_LifecycleBeforeStatic ==
    \A i \in TaskIds :
       tasks[i].handler = "static"
          => (installLog = "ok" /\ activateLog = "ok" /\ pendingDeletes = {})

\* C34: the worker's lifecycle goes forward only, installing, then
\* installed (waiting), then active, and the worker becomes active only
\* after an install that succeeded.
C34_ForwardLifecycle ==
    /\ lifecycle \in {"installing", "installed", "activating", "activated"}
    /\ lifecycle = "installing" => activatePc = "idle"
    /\ lifecycle \in {"activating", "activated"} => installLog = "ok"

-----------------------------------------------------------------------------
(* Properties of the offline fallback and of a failing cache storage *)

\* C23: createOfflineResponse never raises. Whatever the request and the
\* state of the caches, a read that throws included, a handler that
\* returned createOfflineResponse(request) answers with a response.
C23_FallbackNeverRaises ==
    \A i \in TaskIds :
       (tasks[i].fallback /\ tasks[i].pc = "done")
          => tasks[i].reply.kind = "response"

\* createOfflineResponse was called for a request under /api/
ApiFallback(t) ==
    t.fallback /\ t.pc = "done" /\ StartsWith(t.req.url.path, PATH_API_PREFIX)

\* the degraded payload: status 503 and the JSON body with offline: true
DegradedPayload == Response(503, "offline_json")

\* C24 as stated, with a storage in order: for every request under /api/,
\* createOfflineResponse gives the degraded payload, whatever the caches
\* hold.
C24_ApiFallbackDeterministic_Original ==
    ~storageUnavailable
       => \A i \in TaskIds : ApiFallback(tasks[i]) => tasks[i].reply = DegradedPayload

\* C24: for every request under /api/ that is no document,
\* createOfflineResponse gives the degraded payload (status 503, offline
\* flag), whatever the caches hold and whether or not they can be read; so
\* two calls for the same request give the same response.
C24_ApiFallbackDeterministic ==
    \A i \in TaskIds :
       (ApiFallback(tasks[i]) /\ tasks[i].req.destination # "document")
          => tasks[i].reply = DegradedPayload

\* two calls for the same request under /api/, with a cache that holds
\* the shell
C24_Witness ==
    /\ Len(tasks) = 2
    /\ tasks[1].req = tasks[2].req
    /\ \A i \in TaskIds :
          /\ ApiFallback(tasks[i])
          /\ tasks[i].req.destination # "document"
          /\ tasks[i].reply = DegradedPayload
    /\ CachedShell # NoReply

\* the offline page and the generic response of createOfflineResponse
OfflinePage == Response(200, "offline_html")

GenericUnavailable == Response(503, "offline_text")

\* C35: createOfflineResponse by kind of request. For a document, when its
\* caches.match('/') is fulfilled, it gives the cached shell if a cache
\* holds an entry for '/' at that moment, and the offline page (status 200)
\* if none does; never the degraded payload or the generic response. For a
\* request that is neither a document nor under /api/ it gives the generic
\* 503 response.
C35_FallbackByKind ==
    /\ [](\A i \in TaskIds :
            tasks[i].fallback
               => /\ tasks[i].pc \in {"offline_match", "done"}
                  /\ tasks[i].pc = "offline_match" <=>
                        (tasks[i].req.destination = "document" /\ tasks[i].reply = NoReply)
                  /\ (tasks[i].pc = "done" /\ tasks[i].req.destination = "document")
                        => tasks[i].reply \notin {DegradedPayload, GenericUnavailable}
                  /\ (/\ tasks[i].pc = "done"
                      /\ tasks[i].req.destination # "document"
                      /\ ~StartsWith(tasks[i].req.url.path, PATH_API_PREFIX))
                        => tasks[i].reply = GenericUnavailable)
    /\ [][\A i \in TaskIds :
            (/\ tasks[i].pc = "offline_match"
             /\ tasks'[i].pc = "done"
             /\ tasks'[i].reply.kind = "response")
            => tasks'[i].reply = IF CachedShell # NoReply THEN CachedShell
                                 ELSE OfflinePage]_vars

\* createOfflineResponse gave the cached shell for a document and the
\* generic response for an image
C35_Witness ==
    /\ Len(tasks) = 2
    /\ \A i \in TaskIds : tasks[i].fallback /\ tasks[i].pc = "done"
    /\ tasks[1].req = Req("GET", HOST_ORIGIN, PATH_HISTORY, "document")
    /\ tasks[1].reply = Response(200, "cached")
    /\ tasks[2].req = Req("GET", HOST_ORIGIN, PATH_FAVICON, "image")
    /\ tasks[2].reply = GenericUnavailable

\* C25: a cache operation that throws is a miss. A handler that met one
\* gives the page a response, not an error; handleStaticAsset and
\* handleDynamicRequest have gone to the network as they do on a miss.
C25_UnavailableIsMiss ==
    \A i \in TaskIds :
       (tasks[i].unavailable /\ tasks[i].pc = "done")
          => /\ tasks[i].reply.kind = "response"
             /\ tasks[i].handler \in {"static", "dynamic"} => tasks[i].fetches = 1

-----------------------------------------------------------------------------
(* Properties of background sync *)

SyncIds == 1..Len(syncTasks)

\* the sync events whose probe was answered 2xx and whose messages went out
Synced == {i \in SyncIds : syncTasks[i].pc = "done" /\ ResponseOk(syncTasks[i].probe)}

=============================================================================
